---- MODULE Spec2Model ----
(***************************************************************************)
(* Recent Tab Switcher: the floating button's pointer-gesture classifier,  *)
(* its position store and placement, and the recency list of the two most  *)
(* recently focused markdown leaves (src/main.js, compiled from the        *)
(* TypeScript source src/unnamed/part_002).                                *)
(*                                                                         *)
(* Units.  Pixels are fixed-point, in hundredths of a pixel; a percentage  *)
(* string 'p%' is the integer 100*p (toFixed(2) keeps two decimals), so    *)
(* '85%' is 8500.  Viewport extents are whole multiples of 100 px, which   *)
(* makes percent -> pixel exact; pixel -> percent rounds as toFixed(2).    *)
(* Rendering is immediate: the computed style and the bounding rectangle   *)
(* of the button are the values of its --fab-top / --fab-left variables.   *)
(***************************************************************************)
EXTENDS Integers, Sequences, FiniteSets, TLC

\* ------------------------------------------------------------------ bounds

\* Gesture sessions (accepted pointer-downs, one setTimeout each) explored.
MaxSessions == 2
\* Host-side focus changes and leaf closings explored.
MaxHostOps == 2
\* Settings-panel edits explored.
MaxUiOps == 1
\* Animation-frame callbacks that may be queued at once.
MaxRaf == 1
\* 'active-leaf-change' events the host may have in flight at once.
MaxPending == 1
\* Viewport resizes explored.
MaxResizes == 1

\* ------------------------------------------------------- program constants

dragThreshold == 500
DefaultFabSize == 5000
DefaultFabOpacity == 100

\* ------------------------------------------------------------- input sets

NoLeaf == "none"
MarkdownLeaves == {"A", "B", "C"}
\* "X" is a leaf whose view is not a MarkdownView.
Leaves == MarkdownLeaves \cup {"X"}

\* <<innerWidth, innerHeight>>: one portrait and one landscape viewport.
Viewports == {<<40000, 80000>>, <<80000, 40000>>}

\* clientX/clientY of a pointer-down on the button.
DownPoints == {<<20000, 30000>>}
\* clientX/clientY of move events: 5 px away in both axes (at the threshold),
\* 6 px away in y alone (just beyond it), and far away in x alone (clamped).
MovePoints == {<<20500, 29500>>, <<20000, 29400>>, <<90000, 30000>>}

\* Slider values of the settings panel (setLimits(30, 100, 5), (0.1, 1, 0.05)).
SizeChoices == {3000, 10000}
OpacityChoices == {50}

PosSlots == {"posPortraitLeft", "posPortraitRight",
             "posLandscapeLeft", "posLandscapeRight"}
LegacyKeys == {"fabPositionLeft", "fabPositionRight", "activePositionIndex"}
NewKeys == PosSlots \cup {"activeIndexPortrait", "activeIndexLandscape",
                          "fabSize", "fabOpacity"}

\* ---------------------------------------------------------------- helpers

Max(a, b) == IF a >= b THEN a ELSE b
Min(a, b) == IF a <= b THEN a ELSE b
Abs(a) == IF a < 0 THEN -a ELSE a

\* Division rounded to the nearest integer (ties away from zero), d > 0.
RoundDiv(n, d) ==
    IF n >= 0 THEN (2 * n + d) \div (2 * d) ELSE -((2 * (-n) + d) \div (2 * d))

RECURSIVE SqrtSearch(_, _, _)
SqrtSearch(n, lo, hi) ==
    IF lo >= hi THEN lo
    ELSE LET mid == (lo + hi + 1) \div 2
         IN  IF mid * mid <= n THEN SqrtSearch(n, mid, hi)
             ELSE SqrtSearch(n, lo, mid - 1)

\* Math.sqrt, to the fixed-point unit (floor).
Sqrt(n) == SqrtSearch(n, 0, 46340)

\* DEFAULT_SETTINGS as written in the source.
DefaultSettingsLiteral ==
    [posPortraitLeft      |-> [top |-> 8500, left |-> 1000],
     posPortraitRight     |-> [top |-> 8500, left |-> 9000],
     activeIndexPortrait  |-> 1,
     posLandscapeLeft     |-> [top |-> 8000, left |-> 500],
     posLandscapeRight    |-> [top |-> 8000, left |-> 9500],
     activeIndexLandscape |-> 1,
     fabSize              |-> DefaultFabSize,
     fabOpacity           |-> DefaultFabOpacity]

\* Values a blob holds for the legacy flat fields when it has them.
LegacyValues ==
    [fabPositionLeft     |-> [top |-> 7000, left |-> 2000],
     fabPositionRight    |-> [top |-> 7000, left |-> 7000],
     activePositionIndex |-> 0]

\* A blob written by an earlier run of this version: every new field present.
SavedValues ==
    [posPortraitLeft      |-> [top |-> 5000, left |-> 2500],
     posPortraitRight     |-> [top |-> 5000, left |-> 7500],
     activeIndexPortrait  |-> 0,
     posLandscapeLeft     |-> [top |-> 2500, left |-> 1000],
     posLandscapeRight    |-> [top |-> 2500, left |-> 5000],
     activeIndexLandscape |-> 1,
     fabSize              |-> 5000,
     fabOpacity           |-> 100]

\* Persisted blobs loadData() may return: keys present, and their values.
Blobs ==
    { [keys |-> {}, vals |-> DefaultSettingsLiteral, legacy |-> LegacyValues],
      [keys |-> NewKeys, vals |-> SavedValues, legacy |-> LegacyValues],
      [keys |-> LegacyKeys, vals |-> DefaultSettingsLiteral, legacy |-> LegacyValues] }

\* ------------------------------------------------------------------ state

VARIABLES
    settings,           \* this.settings: the fields of NewKeys
    settingsLegacy,     \* the legacy keys the settings object carries
    DEFAULT_SETTINGS,   \* the module-level defaults object (its Positions are mutable)
    shared,             \* slots whose Position object is the one DEFAULT_SETTINGS holds
    persisted,          \* the blob last handed to saveData
    recentLeaves,       \* this.recentLeaves
    fabElement,         \* the button: present, --fab-top/--fab-left, is-dragging, styles
    isDragging,
    longPressTimer,     \* the timer id held in the field, 0 for null
    pendingTimers,      \* ids of the timeouts armed in the browser
    nextTimerId,        \* the id the next window.setTimeout returns
    pointerDownHandled,
    dragStartX, dragStartY,
    fabInitialX, fabInitialY,
    listeners,          \* event types with a handler attached to document
    rafQueue,           \* requested animation-frame callbacks, in request order,
                        \* each with the session (history) that requested it
    innerWidth, innerHeight,
    loaded,             \* FALSE once onunload has run
    initRecordPending,  \* the setTimeout(..., initDelay) of onload has not run yet
    resetPending,       \* reset onClick is suspended at `yield saveSettings()`
    activeLeaf,         \* host: the active leaf
    leafEvents,         \* host: 'active-leaf-change' events in flight
    closedLeaves,       \* host: leaves that were closed
    hostOps, uiOps,     \* exploration counters
    resizes,            \* exploration counter: 'resize' events handled
    lastEvent,          \* history: the event handled by the last step
    calls,              \* history: calls made in the current (or last) session
    dragged,            \* history: the session entered Dragging
    exceeded,           \* history: a move of the session was beyond 5 px
    jumpLog,            \* history: targetLeaf of each jumpToRecentTab call, in order
    recorded,           \* history: the last trackable, visible leaf handed to updateRecentLeaves
    notice              \* history: the Notice shown by the last step, "" for none

settingsVars == <<settings, settingsLegacy, DEFAULT_SETTINGS, shared, persisted>>
gestureVars == <<isDragging, longPressTimer, pendingTimers, nextTimerId,
                 pointerDownHandled, dragStartX, dragStartY, fabInitialX,
                 fabInitialY, listeners, rafQueue>>
hostVars == <<activeLeaf, leafEvents, closedLeaves, hostOps>>
windowVars == <<innerWidth, innerHeight, resizes>>
historyVars == <<calls, dragged, exceeded, jumpLog, recorded>>
vars == <<settingsVars, recentLeaves, fabElement, gestureVars, windowVars, loaded,
          initRecordPending, resetPending, hostVars, uiOps, lastEvent, historyVars,
          notice>>

\* --------------------------------------------------------------- geometry

\* The two non-finite numbers a division by a zero extent produces (x / 0 for
\* x >= 0), as values outside the range of every pixel and percent value.
NaN == -2000000000
Infinity == 2000000000
IsFinite(x) == x # NaN /\ x # Infinity

\* parseFloat(position.top) || 0 on a string written by toFixed(2): "NaN%"
\* parses to NaN, which || replaces by 0; "Infinity%" parses to Infinity.
ParsePercent(p) == IF p = NaN THEN 0 ELSE p

\* (percent / 100) * viewportExtent; extents are multiples of 100 units, and
\* dividing the extent first keeps the product within the integer range.
\* Infinity * 0 is NaN.
ToPixels(percent, extent) ==
    IF percent = NaN THEN NaN
    ELSE IF percent = Infinity THEN (IF extent = 0 THEN NaN ELSE Infinity)
    ELSE (percent * (extent \div 100)) \div 100

\* Variant of Clamp: the lower bound is not applied.
ClampUpperOnly(px, extent, size) == Min(px, extent - size)

\* Math.max(0, Math.min(px, viewportExtent - fabSize)); Math.min and Math.max
\* return NaN when an argument is NaN.
Clamp(px, extent, size) ==
    IF px = NaN THEN NaN
    ELSE IF px = Infinity THEN Max(0, extent - size)
    ELSE Max(0, Min(px, extent - size))

\* getBoundingClientRect / getComputedStyle of the button for a coordinate
\* written as v: "NaNpx" is not a length, top/left then compute to auto and the
\* box sits at its static position. NaN is written only for an axis whose
\* extent is 0, where that position is the origin.
BoundingRect(v) == IF v = NaN THEN 0 ELSE v

\* Variant of ToPercentString: toFixed(0), whole percents.
ToPercentStringWhole(px, extent) == 100 * RoundDiv(px * 100, extent)

\* `${((px / viewportExtent) * 100).toFixed(2)}%` for px >= 0; 0 / 0 is NaN,
\* x / 0 is Infinity, and toFixed prints them as "NaN" and "Infinity".
ToPercentString(px, extent) ==
    IF extent = 0 THEN (IF px = 0 THEN NaN ELSE Infinity)
    ELSE RoundDiv(px * 10000, extent)

isLandscape(w, h) == w > h

\* The active index of the current orientation.
ActiveIndex(s, w, h) ==
    IF isLandscape(w, h) THEN s.activeIndexLandscape ELSE s.activeIndexPortrait

\* The slot applyPosition reads and saveDraggedPosition writes.
ActiveSlot(s, w, h) ==
    IF ActiveIndex(s, w, h) = 0
    THEN (IF isLandscape(w, h) THEN "posLandscapeLeft" ELSE "posPortraitLeft")
    ELSE (IF isLandscape(w, h) THEN "posLandscapeRight" ELSE "posPortraitRight")

\* The slot saveDraggedPosition keeps clear of.
OtherSlot(s, w, h) ==
    IF ActiveIndex(s, w, h) = 1
    THEN (IF isLandscape(w, h) THEN "posLandscapeLeft" ELSE "posPortraitLeft")
    ELSE (IF isLandscape(w, h) THEN "posLandscapeRight" ELSE "posPortraitRight")

\* Variant of applyPosition: the Position of the inactive side is rendered.
applyPositionInactiveSide(fab, s, w, h) ==
    IF ~fab.present THEN fab
    ELSE LET pos == s[OtherSlot(s, w, h)]
             targetTop == ToPixels(ParsePercent(pos.top), h)
             targetLeft == ToPixels(ParsePercent(pos.left), w)
         IN  [fab EXCEPT !.top = Clamp(targetTop, h, s.fabSize),
                         !.left = Clamp(targetLeft, w, s.fabSize)]

\* applyPosition: the button after it ran.
applyPosition(fab, s, w, h) ==
    IF ~fab.present THEN fab
    ELSE LET pos == s[ActiveSlot(s, w, h)]
             targetTop == ToPixels(ParsePercent(pos.top), h)
             targetLeft == ToPixels(ParsePercent(pos.left), w)
         IN  [fab EXCEPT !.top = Clamp(targetTop, h, s.fabSize),
                         !.left = Clamp(targetLeft, w, s.fabSize)]

\* applyFabStyles: the button after it ran.
applyFabStyles(fab, s) ==
    IF ~fab.present THEN fab
    ELSE [fab EXCEPT !.size = s.fabSize, !.opacity = s.fabOpacity]

\* Variant of ToggleIndex: the index is counted up.
ToggleIndexCounting(i) == i + 1

\* Flip of an active index.
ToggleIndex(i) == IF i = 0 THEN 1 ELSE 0

\* Variant of handleLongPress: the orientation is not consulted (the legacy
\* single-orientation index).
handleLongPressPortraitOnly(s, w, h) ==
    [s EXCEPT !.activeIndexPortrait = ToggleIndex(s.activeIndexPortrait)]

\* handleLongPress: the settings after the toggle.
handleLongPress(s, w, h) ==
    IF isLandscape(w, h)
    THEN [s EXCEPT !.activeIndexLandscape = ToggleIndex(s.activeIndexLandscape)]
    ELSE [s EXCEPT !.activeIndexPortrait = ToggleIndex(s.activeIndexPortrait)]

\* saveDraggedPosition: the pixel position that is converted and saved.
\* distance >= minSeparation whenever |dx| or |dy| is, so the square root is
\* taken only of values that fit the integer range.
AdjustedPosition(fab, s, w, h) ==
    LET other == s[OtherSlot(s, w, h)]
        fabSize == s.fabSize
        minSeparation == (fabSize * 12) \div 10
        finalLeftPx == BoundingRect(fab.left)
        finalTopPx == BoundingRect(fab.top)
        finalCenterX == finalLeftPx + fabSize \div 2
        finalCenterY == finalTopPx + fabSize \div 2
        otherTargetTop == ToPixels(ParsePercent(other.top), h)
        otherTargetLeft == ToPixels(ParsePercent(other.left), w)
        otherCenterX == Clamp(otherTargetLeft, w, fabSize) + fabSize \div 2
        otherCenterY == Clamp(otherTargetTop, h, fabSize) + fabSize \div 2
        dx == finalCenterX - otherCenterX
        dy == finalCenterY - otherCenterY
        near == Abs(dx) < minSeparation /\ Abs(dy) < minSeparation
        distance == IF near THEN Sqrt(dx * dx + dy * dy) ELSE minSeparation
    IN  IF near /\ dx * dx + dy * dy < minSeparation * minSeparation
             /\ dx * dx + dy * dy > 100 * 100
        THEN LET adjustedCenterX == otherCenterX + RoundDiv(dx * minSeparation, distance)
                 adjustedCenterY == otherCenterY + RoundDiv(dy * minSeparation, distance)
             IN  [top  |-> Clamp(adjustedCenterY - fabSize \div 2, h, fabSize),
                  left |-> Clamp(adjustedCenterX - fabSize \div 2, w, fabSize),
                  adjusted |-> TRUE]
        ELSE [top |-> finalTopPx, left |-> finalLeftPx, adjusted |-> FALSE]

\* Variant of saveDraggedPosition: the slot is chosen by the portrait index
\* whatever the orientation.
saveDraggedPositionPortraitOnly(fab, s, w, h) ==
    IF ~fab.present THEN [settings |-> s, fab |-> fab, saved |-> FALSE]
    ELSE LET adj == AdjustedPosition(fab, s, w, h)
             slot == IF s.activeIndexPortrait = 0 THEN "posPortraitLeft"
                     ELSE "posPortraitRight"
         IN  [settings |-> [s EXCEPT ![slot] =
                                [top  |-> ToPercentString(adj.top, h),
                                 left |-> ToPercentString(adj.left, w)]],
              fab |-> IF adj.adjusted
                      THEN [fab EXCEPT !.top = adj.top, !.left = adj.left]
                      ELSE fab,
              saved |-> TRUE]

\* Variant of saveDraggedPosition: the slot is overwritten, saveSettings is
\* not called.
saveDraggedPositionWithoutSave(fab, s, w, h) ==
    IF ~fab.present THEN [settings |-> s, fab |-> fab, saved |-> FALSE]
    ELSE LET adj == AdjustedPosition(fab, s, w, h)
             slot == ActiveSlot(s, w, h)
         IN  [settings |-> [s EXCEPT ![slot] =
                                [top  |-> ToPercentString(adj.top, h),
                                 left |-> ToPercentString(adj.left, w)]],
              fab |-> IF adj.adjusted
                      THEN [fab EXCEPT !.top = adj.top, !.left = adj.left]
                      ELSE fab,
              saved |-> FALSE]

\* saveDraggedPosition: the settings and the button after it ran.
saveDraggedPosition(fab, s, w, h) ==
    IF ~fab.present THEN [settings |-> s, fab |-> fab, saved |-> FALSE]
    ELSE LET adj == AdjustedPosition(fab, s, w, h)
             slot == ActiveSlot(s, w, h)
         IN  [settings |-> [s EXCEPT ![slot] =
                                [top  |-> ToPercentString(adj.top, h),
                                 left |-> ToPercentString(adj.left, w)]],
              fab |-> IF adj.adjusted
                      THEN [fab EXCEPT !.top = adj.top, !.left = adj.left]
                      ELSE fab,
              saved |-> TRUE]

\* DEFAULT_SETTINGS after the settings object changed from s to t: a Position
\* object the two share is written in place.
DefaultsAfter(defs, sh, t) ==
    [k \in DOMAIN defs |-> IF k \in sh THEN t[k] ELSE defs[k]]

\* The blob saveData(this.settings) writes.
Blob(s, legacyKeys) ==
    [keys |-> NewKeys \cup legacyKeys, vals |-> s, legacy |-> LegacyValues]

\* ------------------------------------------------------------ loadSettings

\* Variant of MergedValues, Object.assign({}, blob, DEFAULT_SETTINGS): the
\* defaults overwrite the stored fields.
MergedValuesDefaultsLast(blob) ==
    [k \in NewKeys |-> DefaultSettingsLiteral[k]]

\* Object.assign({}, DEFAULT_SETTINGS, blob): the fields of NewKeys.
MergedValues(blob) ==
    [k \in NewKeys |-> IF k \in blob.keys THEN blob.vals[k] ELSE DefaultSettingsLiteral[k]]

\* The keys of the merged object.
MergedKeys(blob) == NewKeys \cup blob.keys

\* The migration test: this.settings.fabPositionLeft && !this.settings.posPortraitLeft
NeedsMigration(blob) ==
    /\ "fabPositionLeft" \in MergedKeys(blob)
    /\ "posPortraitLeft" \notin MergedKeys(blob)

\* loadSettings: the settings object, the legacy keys it carries, the slots it
\* shares with DEFAULT_SETTINGS, and whether saveSettings was called.
loadSettings(blob) ==
    IF NeedsMigration(blob)
    THEN [vals |-> [MergedValues(blob) EXCEPT
                       !.posPortraitLeft = blob.legacy.fabPositionLeft,
                       !.posPortraitRight = blob.legacy.fabPositionRight,
                       !.activeIndexPortrait =
                           IF "activePositionIndex" \in blob.keys
                           THEN blob.legacy.activePositionIndex ELSE 1,
                       !.posLandscapeLeft = DefaultSettingsLiteral.posLandscapeLeft,
                       !.posLandscapeRight = DefaultSettingsLiteral.posLandscapeRight,
                       !.activeIndexLandscape = DefaultSettingsLiteral.activeIndexLandscape],
          legacyKeys |-> {},
          shared |-> {},
          saved |-> TRUE]
    ELSE [vals |-> MergedValues(blob),
          legacyKeys |-> blob.keys \cap LegacyKeys,
          shared |-> PosSlots \ blob.keys,
          saved |-> FALSE]

\* ------------------------------------------------------------------- Init

NoEvent == [type |-> "load", x |-> 0, y |-> 0, leaf |-> NoLeaf, flag |-> FALSE]
NoCalls == [handleLongPress |-> 0, saveDraggedPosition |-> 0, jumpToRecentTab |-> 0]

\* createFAB: the button before applyFabStyles and applyPosition.
NewFab == [present |-> TRUE, top |-> 0, left |-> 0, dragging |-> FALSE,
           size |-> 0, opacity |-> 0]

\* The state when onload has completed (loadSettings, createFAB, handleResize),
\* for a persisted blob, a viewport and a host-side active leaf of the given sets.
Loaded(blobs, viewports, actives) ==
    \E blob \in blobs, v \in viewports, a \in actives :
        LET ld == loadSettings(blob)
        IN  /\ settings = ld.vals
            /\ settingsLegacy = ld.legacyKeys
            /\ DEFAULT_SETTINGS = [k \in PosSlots |-> DefaultSettingsLiteral[k]]
            /\ shared = ld.shared
            /\ persisted = IF ld.saved THEN Blob(ld.vals, ld.legacyKeys) ELSE blob
            /\ recentLeaves = << >>
            /\ innerWidth = v[1]
            /\ innerHeight = v[2]
            /\ fabElement = applyFabStyles(
                                applyPosition(NewFab, ld.vals, v[1], v[2]), ld.vals)
            /\ isDragging = FALSE
            /\ longPressTimer = 0
            /\ pendingTimers = {}
            /\ nextTimerId = 1
            /\ pointerDownHandled = FALSE
            /\ dragStartX = 0
            /\ dragStartY = 0
            /\ fabInitialX = 0
            /\ fabInitialY = 0
            /\ listeners = {}
            /\ rafQueue = << >>
            /\ loaded = TRUE
            /\ initRecordPending = TRUE
            /\ resetPending = FALSE
            /\ activeLeaf = a
            /\ leafEvents = << >>
            /\ closedLeaves = {}
            /\ hostOps = 0
            /\ uiOps = 0
            /\ resizes = 0
            /\ lastEvent = NoEvent
            /\ calls = NoCalls
            /\ dragged = FALSE
            /\ exceeded = FALSE
            /\ jumpLog = << >>
            /\ recorded = NoLeaf
            /\ notice = ""

Event(type, x, y, leaf, flag) ==
    [type |-> type, x |-> x, y |-> y, leaf |-> leaf, flag |-> flag]

\* ------------------------------------------------------- gesture handlers

\* Variant of ListenersFor: no listener for touchcancel.
ListenersForWithoutCancel(kind) ==
    IF kind = "mousedown" THEN {"mousemove", "mouseup"}
    ELSE {"touchmove", "touchend"}

\* Document listeners onPointerDown attaches for a mouse or a touch event.
ListenersFor(kind) ==
    IF kind = "mousedown" THEN {"mousemove", "mouseup"}
    ELSE {"touchmove", "touchend", "touchcancel"}

\* Variant of DownIgnored: the session flag is not consulted.
DownIgnoredWithoutSessionFlag(fabPresent, handled) == ~fabPresent

\* onPointerDown: `if (!this.fabElement || this.pointerDownHandled) return;`
DownIgnored(fabPresent, handled) == ~fabPresent \/ handled

\* onPointerDown(event) for a mousedown or touchstart on the button.
onPointerDown(kind, p) ==
    /\ loaded
    /\ IF DownIgnored(fabElement.present, pointerDownHandled)
       THEN /\ lastEvent' = Event(kind, p[1], p[2], NoLeaf, FALSE)
            /\ UNCHANGED <<gestureVars, historyVars>>
       ELSE /\ nextTimerId <= MaxSessions
            /\ pointerDownHandled' = TRUE
            /\ isDragging' = FALSE
            /\ fabInitialX' = BoundingRect(fabElement.left)
            /\ fabInitialY' = BoundingRect(fabElement.top)
            /\ dragStartX' = p[1]
            /\ dragStartY' = p[2]
            /\ listeners' = listeners \cup ListenersFor(kind)
            /\ longPressTimer' = nextTimerId
            /\ pendingTimers' = (pendingTimers \ {longPressTimer}) \cup {nextTimerId}
            /\ nextTimerId' = nextTimerId + 1
            /\ calls' = NoCalls
            /\ dragged' = FALSE
            /\ exceeded' = FALSE
            /\ lastEvent' = Event(kind, p[1], p[2], NoLeaf, TRUE)
            /\ UNCHANGED <<rafQueue, jumpLog, recorded>>
    /\ notice' = ""
    /\ UNCHANGED <<settingsVars, recentLeaves, fabElement, windowVars, loaded,
                   initRecordPending, resetPending, hostVars, uiOps>>

\* Variant of OverThreshold: only the horizontal displacement is compared.
OverThresholdHorizontal(currentX, currentY, startX, startY) ==
    Abs(currentX - startX) > dragThreshold

\* Variant of OverThreshold: a displacement equal to the threshold counts.
OverThresholdInclusive(currentX, currentY, startX, startY) ==
    \/ Abs(currentX - startX) >= dragThreshold
    \/ Abs(currentY - startY) >= dragThreshold

\* deltaX > dragThreshold || deltaY > dragThreshold
OverThreshold(currentX, currentY, startX, startY) ==
    \/ Abs(currentX - startX) > dragThreshold
    \/ Abs(currentY - startY) > dragThreshold

\* The session a handler runs in, numbered by the timer its pointer-down armed.
CurrentSession(nextId) == nextId - 1

\* Variant of MoveIgnored: the touches list is not tested.
MoveIgnoredWithoutTouchTest(handled, touches) == ~handled

\* onPointerMove: `if (!this.pointerDownHandled) return;` and, for a touch
\* event, `if (event.touches.length === 0) return;`
MoveIgnored(handled, touches) == ~handled \/ ~touches

\* onPointerMove(event) for a mousemove or touchmove on the document; touches
\* is FALSE for a touch event whose touches list is empty. The move is explored
\* while fewer than limit callbacks wait for the next animation frame.
onPointerMoveWithin(kind, p, touches, limit) ==
    /\ kind \in listeners
    /\ lastEvent' = Event(kind, p[1], p[2], NoLeaf, touches)
    /\ notice' = ""
    /\ IF MoveIgnored(pointerDownHandled, touches)
       THEN UNCHANGED <<gestureVars, fabElement, dragged, exceeded>>
       ELSE LET starts == ~isDragging
                          /\ OverThreshold(p[1], p[2], dragStartX, dragStartY)
                nowDragging == isDragging \/ starts
                newX == fabInitialX + (p[1] - dragStartX)
                newY == fabInitialY + (p[2] - dragStartY)
                clampedX == Clamp(newX, innerWidth, settings.fabSize)
                clampedY == Clamp(newY, innerHeight, settings.fabSize)
            IN  /\ isDragging' = nowDragging
                /\ longPressTimer' = IF starts THEN 0 ELSE longPressTimer
                /\ pendingTimers' = IF starts THEN pendingTimers \ {longPressTimer}
                                    ELSE pendingTimers
                /\ fabElement' = IF starts /\ fabElement.present
                                 THEN [fabElement EXCEPT !.dragging = TRUE]
                                 ELSE fabElement
                /\ IF nowDragging /\ fabElement.present
                   THEN /\ Len(rafQueue) < limit
                        /\ rafQueue' = Append(rafQueue,
                               [x |-> clampedX, y |-> clampedY,
                                session |-> CurrentSession(nextTimerId)])
                   ELSE UNCHANGED rafQueue
                /\ dragged' = (dragged \/ nowDragging)
                /\ exceeded' = (exceeded \/ Abs(p[1] - dragStartX) > 500
                                         \/ Abs(p[2] - dragStartY) > 500)
                /\ UNCHANGED <<nextTimerId, pointerDownHandled, dragStartX, dragStartY,
                               fabInitialX, fabInitialY, listeners>>
    /\ UNCHANGED <<settingsVars, recentLeaves, windowVars, loaded, initRecordPending,
                   resetPending, hostVars, uiOps, calls, jumpLog, recorded>>

onPointerMove(kind, p, touches) == onPointerMoveWithin(kind, p, touches, MaxRaf)

\* Variant of RunFrameCallbacks: only the callback requested first has an
\* effect.
RunFrameCallbacksFirstOnly(fab, queue, dragging) ==
    IF queue = << >> \/ ~(fab.present /\ dragging) THEN fab
    ELSE [fab EXCEPT !.top = Head(queue).y, !.left = Head(queue).x]

\* The requestAnimationFrame callbacks of onPointerMove, run in request order:
\* each writes its own clampedY and clampedX if the button exists and the
\* session is dragging.
RECURSIVE RunFrameCallbacks(_, _, _)
RunFrameCallbacks(fab, queue, dragging) ==
    IF queue = << >> THEN fab
    ELSE LET cb == Head(queue)
             after == IF fab.present /\ dragging
                      THEN [fab EXCEPT !.top = cb.y, !.left = cb.x]
                      ELSE fab
         IN  RunFrameCallbacks(after, Tail(queue), dragging)

\* The callbacks of a frame whose body runs: `if (this.fabElement &&
\* this.isDragging)` is the only test, and no callback changes what it reads.
AppliedCallbacks(fab, queue, dragging) ==
    IF fab.present /\ dragging THEN queue ELSE << >>

\* An animation frame: the browser runs every callback requested since the
\* last frame, with no event handler in between; the event's x is their number.
AnimationFrame ==
    /\ rafQueue # << >>
    /\ fabElement' = RunFrameCallbacks(fabElement, rafQueue, isDragging)
    /\ rafQueue' = << >>
    /\ lastEvent' = Event("frame", Len(rafQueue), 0, NoLeaf, FALSE)
    /\ notice' = ""
    /\ UNCHANGED <<settingsVars, recentLeaves, isDragging, longPressTimer, pendingTimers,
                   nextTimerId, pointerDownHandled, dragStartX, dragStartY, fabInitialX,
                   fabInitialY, listeners, windowVars, loaded, initRecordPending,
                   resetPending, hostVars, uiOps, historyVars>>

\* ----------------------------------------------------------- recency list

IsMarkdown(leaf) == leaf \in MarkdownLeaves

\* recentLeaves.findIndex(leaf => leaf === currentLeaf), 0-based, -1 for none.
FindIndex(recent, leaf) ==
    IF \E i \in 1..Len(recent) : recent[i] = leaf
    THEN (CHOOSE i \in 1..Len(recent) :
              recent[i] = leaf /\ \A j \in 1..(i - 1) : recent[j] # leaf) - 1
    ELSE -1

\* recentLeaves.splice(index, 1), index 0-based.
Splice(recent, index) ==
    [i \in 1..(Len(recent) - 1) |-> IF i <= index THEN recent[i] ELSE recent[i + 1]]

\* Variant of updateRecentLeaves: the list is not cut back to 2 entries.
updateRecentLeavesUntruncated(recent, leaf, visible) ==
    IF ~IsMarkdown(leaf) \/ ~visible THEN recent
    ELSE LET existingIndex == FindIndex(recent, leaf)
         IN  IF existingIndex = 0 THEN recent
             ELSE <<leaf>> \o (IF existingIndex > 0 THEN Splice(recent, existingIndex)
                               ELSE recent)

\* Variant of updateRecentLeaves: push instead of unshift, keeping the oldest
\* 2 entries.
updateRecentLeavesPushing(recent, leaf, visible) ==
    IF ~IsMarkdown(leaf) \/ ~visible THEN recent
    ELSE LET existingIndex == FindIndex(recent, leaf)
         IN  IF existingIndex = 0 THEN recent
             ELSE LET removed == IF existingIndex > 0 THEN Splice(recent, existingIndex)
                                 ELSE recent
                      pushed == removed \o <<leaf>>
                  IN  IF Len(pushed) > 2 THEN SubSeq(pushed, 1, 2) ELSE pushed

\* Variant of updateRecentLeaves: the size of the view's container is not
\* tested.
updateRecentLeavesWhenHidden(recent, leaf, visible) ==
    IF ~IsMarkdown(leaf) THEN recent
    ELSE LET existingIndex == FindIndex(recent, leaf)
         IN  IF existingIndex = 0 THEN recent
             ELSE LET removed == IF existingIndex > 0 THEN Splice(recent, existingIndex)
                                 ELSE recent
                      unshifted == <<leaf>> \o removed
                  IN  IF Len(unshifted) > 2 THEN SubSeq(unshifted, 1, 2) ELSE unshifted

\* Variant of updateRecentLeaves: the leaf is put in front without looking for
\* it in the list.
updateRecentLeavesKeepingDuplicates(recent, leaf, visible) ==
    IF ~IsMarkdown(leaf) THEN recent
    ELSE IF ~visible THEN recent
    ELSE LET unshifted == <<leaf>> \o recent
         IN  IF Len(unshifted) > 2 THEN SubSeq(unshifted, 1, 2) ELSE unshifted

\* updateRecentLeaves(currentLeaf): the list after it ran; visible is FALSE when
\* the view's container has offsetWidth or offsetHeight 0.
updateRecentLeaves(recent, leaf, visible) ==
    IF ~IsMarkdown(leaf) THEN recent
    ELSE IF ~visible THEN recent
    ELSE LET existingIndex == FindIndex(recent, leaf)
         IN  IF existingIndex = 0 THEN recent
             ELSE LET removed == IF existingIndex > 0 THEN Splice(recent, existingIndex)
                                 ELSE recent
                      unshifted == <<leaf>> \o removed
                  IN  IF Len(unshifted) > 2 THEN SubSeq(unshifted, 1, 2) ELSE unshifted

\* app.workspace.getActiveViewOfType(MarkdownView)?.leaf
ActiveMarkdownLeaf(active) == IF IsMarkdown(active) THEN active ELSE NoLeaf

\* Variant of SwitchTarget, as in src/unnamed/part_001: with no active markdown
\* leaf the first entry is the target.
SwitchTargetFirstWhenNoneActive(recent, active) ==
    IF active = NoLeaf THEN recent[1]
    ELSE IF active = recent[1] THEN recent[2] ELSE recent[1]

\* jumpToRecentTab: targetLeaf for a list of 2 entries.
SwitchTarget(recent, active) ==
    IF active = NoLeaf \/ active = recent[1] THEN recent[2] ELSE recent[1]

\* Variant of jumpToRecentTab: the test `targetLeaf !== activeLeaf` is inverted,
\* so setActiveLeaf is never reached.
jumpToRecentTabWithoutFocus(recent, active, closed) ==
    IF Len(recent) < 2
    THEN [target |-> NoLeaf, request |-> NoLeaf, threw |-> FALSE, escaped |-> FALSE,
          notice |-> "No previous tab available to switch to."]
    ELSE [target |-> SwitchTarget(recent, active), request |-> NoLeaf, threw |-> FALSE, escaped |-> FALSE,
          notice |-> "Already on the most recent tab."]

\* Variant of jumpToRecentTab: with fewer than 2 tracked leaves it returns
\* without a Notice.
jumpToRecentTabQuietWhenShort(recent, active, closed) ==
    IF Len(recent) < 2
    THEN [target |-> NoLeaf, request |-> NoLeaf, threw |-> FALSE, escaped |-> FALSE,
          notice |-> ""]
    ELSE LET targetLeaf == SwitchTarget(recent, active)
         IN  IF targetLeaf # NoLeaf /\ targetLeaf # active
             THEN [target |-> targetLeaf, request |-> targetLeaf,
                   threw |-> targetLeaf \in closed, escaped |-> FALSE,
                   notice |-> IF targetLeaf \in closed
                              THEN "Error switching tabs. The tab might have been closed."
                              ELSE ""]
             ELSE IF targetLeaf = active
             THEN [target |-> targetLeaf, request |-> NoLeaf, threw |-> FALSE, escaped |-> FALSE,
                   notice |-> "Already on the most recent tab."]
             ELSE [target |-> targetLeaf, request |-> NoLeaf, threw |-> FALSE, escaped |-> FALSE,
                   notice |-> "Could not determine target tab."]

\* Variant of jumpToRecentTab: setActiveLeaf is called outside try/catch, so a
\* failure leaves the function as an exception.
jumpToRecentTabUncaught(recent, active, closed) ==
    IF Len(recent) < 2
    THEN [target |-> NoLeaf, request |-> NoLeaf, threw |-> FALSE, escaped |-> FALSE,
          notice |-> "No previous tab available to switch to."]
    ELSE LET targetLeaf == SwitchTarget(recent, active)
         IN  IF targetLeaf # NoLeaf /\ targetLeaf # active
             THEN [target |-> targetLeaf, request |-> targetLeaf,
                   threw |-> targetLeaf \in closed, escaped |-> targetLeaf \in closed,
                   notice |-> ""]
             ELSE IF targetLeaf = active
             THEN [target |-> targetLeaf, request |-> NoLeaf, threw |-> FALSE, escaped |-> FALSE,
                   notice |-> "Already on the most recent tab."]
             ELSE [target |-> targetLeaf, request |-> NoLeaf, threw |-> FALSE, escaped |-> FALSE,
                   notice |-> "Could not determine target tab."]

\* jumpToRecentTab: targetLeaf, the leaf handed to setActiveLeaf (NoLeaf for no
\* call), whether that call threw, whether the exception left the function
\* (never: the call is inside try/catch), and the Notice shown.
jumpToRecentTab(recent, active, closed) ==
    IF Len(recent) < 2
    THEN [target |-> NoLeaf, request |-> NoLeaf, threw |-> FALSE, escaped |-> FALSE,
          notice |-> "No previous tab available to switch to."]
    ELSE LET targetLeaf == SwitchTarget(recent, active)
         IN  IF targetLeaf # NoLeaf /\ targetLeaf # active
             THEN [target |-> targetLeaf, request |-> targetLeaf,
                   threw |-> targetLeaf \in closed, escaped |-> FALSE,
                   notice |-> IF targetLeaf \in closed
                              THEN "Error switching tabs. The tab might have been closed."
                              ELSE ""]
             ELSE IF targetLeaf = active
             THEN [target |-> targetLeaf, request |-> NoLeaf, threw |-> FALSE, escaped |-> FALSE,
                   notice |-> "Already on the most recent tab."]
             ELSE [target |-> targetLeaf, request |-> NoLeaf, threw |-> FALSE, escaped |-> FALSE,
                   notice |-> "Could not determine target tab."]

\* ---------------------------------------------------------------- pointer up

\* Variant of UpActions: isDragging is read after it was reset, so a drag is
\* never finalized.
UpActionsAfterReset(wasDragging, longPressTimerStillPending) ==
    IF longPressTimerStillPending THEN {"jumpToRecentTab"} ELSE {}

\* Variant of UpActions: a press that was not a drag is a tap, whether or not
\* the long-press timer has fired.
UpActionsIgnoringTimer(wasDragging, longPressTimerStillPending) ==
    IF wasDragging THEN {"saveDraggedPosition"} ELSE {"jumpToRecentTab"}

\* onPointerUp, "Decide action": the functions it calls.
UpActions(wasDragging, longPressTimerStillPending) ==
    IF wasDragging THEN {"saveDraggedPosition"}
    ELSE IF longPressTimerStillPending THEN {"jumpToRecentTab"}
    ELSE {}

\* Variant of removeGlobalListeners: the touchcancel listener is left attached.
removeGlobalListenersKeepingCancel(ls) ==
    ls \ {"mousemove", "mouseup", "touchmove", "touchend"}

\* Variant of removeGlobalListeners: only the mouse listeners are removed.
removeGlobalListenersMouseOnly(ls) == ls \ {"mousemove", "mouseup"}

\* removeGlobalListeners
removeGlobalListeners(ls) ==
    ls \ {"mousemove", "mouseup", "touchmove", "touchend", "touchcancel"}

\* onPointerUp(event) for a mouseup, touchend or touchcancel on the document.
onPointerUp(kind) ==
    /\ kind \in listeners
    /\ lastEvent' = Event(kind, 0, 0, NoLeaf, pointerDownHandled)
    /\ IF ~pointerDownHandled
       THEN /\ notice' = ""
            /\ UNCHANGED <<settingsVars, fabElement, gestureVars, hostVars, historyVars>>
       ELSE LET wasDragging == isDragging
                longPressTimerStillPending == longPressTimer # 0
                acts == UpActions(wasDragging, longPressTimerStillPending)
                fab0 == IF wasDragging /\ fabElement.present
                        THEN [fabElement EXCEPT !.dragging = FALSE] ELSE fabElement
                sv == saveDraggedPosition(fab0, settings, innerWidth, innerHeight)
                jp == jumpToRecentTab(recentLeaves, ActiveMarkdownLeaf(activeLeaf),
                                      closedLeaves)
                saves == "saveDraggedPosition" \in acts
                jumps == "jumpToRecentTab" \in acts
                \* an exception out of jumpToRecentTab ends the handler there
                escaped == jumps /\ jp.escaped
            IN  /\ pendingTimers' = pendingTimers \ {longPressTimer}
                /\ longPressTimer' = 0
                /\ settings' = IF saves THEN sv.settings ELSE settings
                /\ fabElement' = IF saves THEN sv.fab ELSE fab0
                /\ DEFAULT_SETTINGS' =
                       IF saves THEN DefaultsAfter(DEFAULT_SETTINGS, shared, sv.settings)
                       ELSE DEFAULT_SETTINGS
                /\ persisted' = IF saves /\ sv.saved THEN Blob(sv.settings, settingsLegacy)
                                ELSE persisted
                /\ IF jumps /\ jp.request # NoLeaf /\ ~jp.threw
                   THEN /\ activeLeaf' = jp.request
                        /\ leafEvents' = Append(leafEvents, jp.request)
                   ELSE UNCHANGED <<activeLeaf, leafEvents>>
                /\ jumpLog' = IF jumps THEN Append(jumpLog, jp.target) ELSE jumpLog
                /\ notice' = IF jumps THEN jp.notice ELSE ""
                /\ calls' = [calls EXCEPT
                       !.saveDraggedPosition = @ + (IF saves THEN 1 ELSE 0),
                       !.jumpToRecentTab = @ + (IF jumps THEN 1 ELSE 0)]
                /\ listeners' = IF escaped THEN listeners
                                ELSE removeGlobalListeners(listeners)
                /\ isDragging' = IF escaped THEN isDragging ELSE FALSE
                /\ pointerDownHandled' = IF escaped THEN pointerDownHandled ELSE FALSE
                /\ UNCHANGED <<settingsLegacy, shared, nextTimerId, dragStartX, dragStartY,
                               fabInitialX, fabInitialY, rafQueue, closedLeaves, hostOps,
                               dragged, exceeded, recorded>>
    /\ UNCHANGED <<recentLeaves, windowVars, loaded, initRecordPending, resetPending,
                   uiOps>>

\* Variant of TimerRunsLongPress: the callback never calls handleLongPress.
TimerRunsLongPressNever(dragging) == FALSE

\* The timer callback: `if (!this.isDragging) { this.handleLongPress(); }`
TimerRunsLongPress(dragging) == ~dragging

\* The callback of the long-press setTimeout armed by onPointerDown.
LongPressTimeout ==
    /\ \E id \in pendingTimers :
          /\ pendingTimers' = pendingTimers \ {id}
          /\ lastEvent' = Event("timeout", 0, 0, NoLeaf, TimerRunsLongPress(isDragging))
          /\ IF TimerRunsLongPress(isDragging)
             THEN LET toggled == handleLongPress(settings, innerWidth, innerHeight)
                  IN  /\ settings' = toggled
                      /\ fabElement' = applyPosition(fabElement, toggled,
                                                     innerWidth, innerHeight)
                      /\ persisted' = Blob(toggled, settingsLegacy)
                      /\ calls' = [calls EXCEPT !.handleLongPress = @ + 1]
                      /\ notice' = "Switched button position!"
             ELSE /\ notice' = ""
                  /\ UNCHANGED <<settings, fabElement, persisted, calls>>
          /\ longPressTimer' = 0
    /\ UNCHANGED <<settingsLegacy, DEFAULT_SETTINGS, shared, recentLeaves, isDragging,
                   nextTimerId, pointerDownHandled, dragStartX, dragStartY, fabInitialX,
                   fabInitialY, listeners, rafQueue, windowVars, loaded,
                   initRecordPending, resetPending, hostVars, uiOps, dragged, exceeded,
                   jumpLog, recorded>>

\* ------------------------------------------------------- host and recency

\* The host makes leaf l (or no leaf) active and announces it.
HostActivates(l) ==
    /\ hostOps < MaxHostOps
    /\ Len(leafEvents) < MaxPending
    /\ l # activeLeaf
    /\ l \notin closedLeaves
    /\ activeLeaf' = l
    /\ leafEvents' = Append(leafEvents, l)
    /\ hostOps' = hostOps + 1
    /\ lastEvent' = Event("host", 0, 0, l, FALSE)
    /\ notice' = ""
    /\ UNCHANGED <<settingsVars, recentLeaves, fabElement, gestureVars, windowVars,
                   loaded, initRecordPending, resetPending, closedLeaves, uiOps,
                   historyVars>>

\* The host closes a leaf that is not the active one.
HostCloses(l) ==
    /\ hostOps < MaxHostOps
    /\ l # activeLeaf
    /\ l \notin closedLeaves
    /\ closedLeaves' = closedLeaves \cup {l}
    /\ hostOps' = hostOps + 1
    /\ lastEvent' = Event("host", 0, 0, l, FALSE)
    /\ notice' = ""
    /\ UNCHANGED <<settingsVars, recentLeaves, fabElement, gestureVars, windowVars,
                   loaded, initRecordPending, resetPending, activeLeaf, leafEvents,
                   uiOps, historyVars>>

\* The 'active-leaf-change' callback registered by onload; a closed leaf's
\* container is detached and has no dimensions.
ActiveLeafChange(visible) ==
    /\ loaded
    /\ leafEvents # << >>
    /\ LET leaf == Head(leafEvents)
       IN  /\ leaf \in closedLeaves => ~visible
           /\ recentLeaves' = IF leaf # NoLeaf
                              THEN updateRecentLeaves(recentLeaves, leaf, visible)
                              ELSE recentLeaves
           /\ recorded' = IF leaf \in MarkdownLeaves /\ visible THEN leaf ELSE recorded
           /\ lastEvent' = Event("active-leaf-change", 0, 0, leaf, visible)
    /\ leafEvents' = Tail(leafEvents)
    /\ notice' = ""
    /\ UNCHANGED <<settingsVars, fabElement, gestureVars, windowVars, loaded,
                   initRecordPending, resetPending, activeLeaf, closedLeaves, hostOps,
                   uiOps, calls, dragged, exceeded, jumpLog>>

\* The setTimeout(..., initDelay) callback of onload.
InitialRecord(visible) ==
    /\ initRecordPending
    /\ initRecordPending' = FALSE
    /\ LET leaf == ActiveMarkdownLeaf(activeLeaf)
       IN  /\ recentLeaves' = IF leaf # NoLeaf
                              THEN updateRecentLeaves(recentLeaves, leaf, visible)
                              ELSE recentLeaves
           /\ recorded' = IF leaf \in MarkdownLeaves /\ visible THEN leaf ELSE recorded
           /\ lastEvent' = Event("initial-record", 0, 0, leaf, visible)
    /\ notice' = ""
    /\ UNCHANGED <<settingsVars, fabElement, gestureVars, windowVars, loaded,
                   resetPending, hostVars, uiOps, calls, dragged, exceeded, jumpLog>>

\* ------------------------------------------------- viewport, panel, unload

\* handleResize, on the window's resize event, the viewport now being v.
handleResize(v) ==
    /\ loaded
    /\ v # <<innerWidth, innerHeight>>
    /\ resizes < MaxResizes
    /\ resizes' = resizes + 1
    /\ innerWidth' = v[1]
    /\ innerHeight' = v[2]
    /\ fabElement' = applyFabStyles(applyPosition(fabElement, settings, v[1], v[2]),
                                    settings)
    /\ lastEvent' = Event("resize", v[1], v[2], NoLeaf, FALSE)
    /\ notice' = ""
    /\ UNCHANGED <<settingsVars, recentLeaves, gestureVars, loaded, initRecordPending,
                   resetPending, hostVars, uiOps, historyVars>>

\* The 'Button Size' slider's onChange(value).
ChangeFabSize(value) ==
    /\ loaded
    /\ uiOps < MaxUiOps
    /\ value # settings.fabSize
    /\ LET t == [settings EXCEPT !.fabSize = value]
       IN  /\ settings' = t
           /\ fabElement' = applyPosition(applyFabStyles(fabElement, t), t,
                                          innerWidth, innerHeight)
           /\ persisted' = Blob(t, settingsLegacy)
    /\ uiOps' = uiOps + 1
    /\ lastEvent' = Event("size", value, 0, NoLeaf, FALSE)
    /\ notice' = ""
    /\ UNCHANGED <<settingsLegacy, DEFAULT_SETTINGS, shared, recentLeaves, gestureVars,
                   windowVars, loaded, initRecordPending, resetPending, hostVars,
                   historyVars>>

\* The 'Button Opacity' slider's onChange(value).
ChangeFabOpacity(value) ==
    /\ loaded
    /\ uiOps < MaxUiOps
    /\ value # settings.fabOpacity
    /\ LET t == [settings EXCEPT !.fabOpacity = value]
       IN  /\ settings' = t
           /\ fabElement' = applyFabStyles(fabElement, t)
           /\ persisted' = Blob(t, settingsLegacy)
    /\ uiOps' = uiOps + 1
    /\ lastEvent' = Event("opacity", value, 0, NoLeaf, FALSE)
    /\ notice' = ""
    /\ UNCHANGED <<settingsLegacy, DEFAULT_SETTINGS, shared, recentLeaves, gestureVars,
                   windowVars, loaded, initRecordPending, resetPending, hostVars,
                   historyVars>>

\* 'Reset All Positions' onClick, confirmed, up to `yield saveSettings()`:
\* every Position becomes a copy of the one DEFAULT_SETTINGS holds now.
ResetClick ==
    /\ loaded
    /\ uiOps < MaxUiOps
    /\ ~resetPending
    /\ LET t == [settings EXCEPT
                    !.posPortraitLeft = DEFAULT_SETTINGS.posPortraitLeft,
                    !.posPortraitRight = DEFAULT_SETTINGS.posPortraitRight,
                    !.activeIndexPortrait = DefaultSettingsLiteral.activeIndexPortrait,
                    !.posLandscapeLeft = DEFAULT_SETTINGS.posLandscapeLeft,
                    !.posLandscapeRight = DEFAULT_SETTINGS.posLandscapeRight,
                    !.activeIndexLandscape = DefaultSettingsLiteral.activeIndexLandscape]
       IN  /\ settings' = t
           /\ persisted' = Blob(t, settingsLegacy)
    /\ shared' = {}
    /\ resetPending' = TRUE
    /\ uiOps' = uiOps + 1
    /\ lastEvent' = Event("reset", 0, 0, NoLeaf, FALSE)
    /\ notice' = ""
    /\ UNCHANGED <<settingsLegacy, DEFAULT_SETTINGS, recentLeaves, fabElement,
                   gestureVars, windowVars, loaded, initRecordPending, hostVars,
                   historyVars>>

\* The rest of the reset onClick, once the save has completed.
ResetContinue ==
    /\ resetPending
    /\ resetPending' = FALSE
    /\ fabElement' = applyFabStyles(
                         applyPosition(fabElement, settings, innerWidth, innerHeight),
                         settings)
    /\ lastEvent' = Event("reset-done", 0, 0, NoLeaf, FALSE)
    /\ notice' = "All FAB positions reset to defaults."
    /\ UNCHANGED <<settingsVars, recentLeaves, gestureVars, windowVars, loaded,
                   initRecordPending, hostVars, uiOps, historyVars>>

\* onunload
onunload ==
    /\ loaded
    /\ loaded' = FALSE
    /\ pendingTimers' = pendingTimers \ {longPressTimer}
    /\ listeners' = removeGlobalListeners(listeners)
    /\ fabElement' = [fabElement EXCEPT !.present = FALSE]
    /\ recentLeaves' = << >>
    /\ lastEvent' = Event("unload", 0, 0, NoLeaf, FALSE)
    /\ notice' = ""
    /\ UNCHANGED <<settingsVars, isDragging, longPressTimer, nextTimerId,
                   pointerDownHandled, dragStartX, dragStartY, fabInitialX, fabInitialY,
                   rafQueue, windowVars, initRecordPending, resetPending, hostVars,
                   uiOps, historyVars>>

\* onload of a new plugin instance after onunload (the plugin is enabled again
\* or the app restarts): main.js is evaluated anew, so DEFAULT_SETTINGS is the
\* literal again, loadData() returns the blob last written, and the constructor
\* resets the interaction fields.
onload ==
    /\ ~loaded
    /\ LET ld == loadSettings(persisted)
       IN  /\ settings' = ld.vals
           /\ settingsLegacy' = ld.legacyKeys
           /\ DEFAULT_SETTINGS' = [k \in PosSlots |-> DefaultSettingsLiteral[k]]
           /\ shared' = ld.shared
           /\ persisted' = IF ld.saved THEN Blob(ld.vals, ld.legacyKeys) ELSE persisted
           /\ fabElement' = applyFabStyles(
                                applyPosition(NewFab, ld.vals, innerWidth, innerHeight),
                                ld.vals)
    /\ recentLeaves' = << >>
    /\ isDragging' = FALSE
    /\ longPressTimer' = 0
    /\ pointerDownHandled' = FALSE
    /\ dragStartX' = 0
    /\ dragStartY' = 0
    /\ fabInitialX' = 0
    /\ fabInitialY' = 0
    /\ rafQueue' = << >>
    /\ loaded' = TRUE
    /\ initRecordPending' = TRUE
    /\ resetPending' = FALSE
    /\ lastEvent' = Event("onload", 0, 0, NoLeaf, FALSE)
    /\ notice' = ""
    /\ UNCHANGED <<pendingTimers, nextTimerId, listeners, windowVars, hostVars, uiOps,
                   historyVars>>

\* ------------------------------------------------------------ specification

Init == Loaded(Blobs, Viewports, {NoLeaf, "A"})

PointerStep ==
    \/ \E kind \in {"mousedown", "touchstart"}, p \in DownPoints : onPointerDown(kind, p)
    \/ \E kind \in {"mouseup", "touchend", "touchcancel"} : onPointerUp(kind)
    \/ LongPressTimeout

MoveStep ==
    \/ \E p \in MovePoints : onPointerMove("mousemove", p, TRUE)
    \/ \E p \in MovePoints, touches \in BOOLEAN : onPointerMove("touchmove", p, touches)
    \/ AnimationFrame

HostStep ==
    \/ \E l \in Leaves \cup {NoLeaf} : HostActivates(l)
    \/ \E l \in Leaves : HostCloses(l)
    \/ \E visible \in BOOLEAN : ActiveLeafChange(visible)
    \/ \E visible \in BOOLEAN : InitialRecord(visible)

PanelStep ==
    \/ \E value \in SizeChoices : ChangeFabSize(value)
    \/ \E value \in OpacityChoices : ChangeFabOpacity(value)
    \/ ResetClick
    \/ ResetContinue

ResizeStep == \E v \in Viewports : handleResize(v)

\* The whole plugin in its environment.
Next ==
    \/ PointerStep
    \/ MoveStep
    \/ HostStep
    \/ PanelStep
    \/ ResizeStep
    \/ onunload
    \/ onload

Spec == Init /\ [][Next]_vars

\* The gesture classifier: presses, moves, the long-press timer and animation
\* frames in a viewport that keeps its size, with the host's focus left alone.
InitGesture == Loaded({b \in Blobs : b.keys \cap LegacyKeys = {}}, Viewports, {"A"})
NextGesture ==
    \/ PointerStep
    \/ MoveStep
SpecGesture == InitGesture /\ [][NextGesture]_vars

\* Placement: presses of a pointer that is not moved (taps and long-presses),
\* viewport resizes and settings-panel edits.
InitPlacement == Loaded(Blobs, Viewports, {"A"})
NextPlacement ==
    \/ PointerStep
    \/ ResizeStep
    \/ PanelStep
SpecPlacement == InitPlacement /\ [][NextPlacement]_vars

\* The recency tracker: the host's focus changes and closings, their events,
\* and presses of a pointer that is not moved.
InitRecency == Loaded({[keys |-> {}, vals |-> DefaultSettingsLiteral,
                        legacy |-> LegacyValues]},
                      {<<40000, 80000>>}, {NoLeaf, "A"})
NextRecency ==
    \/ PointerStep
    \/ HostStep
    \/ onunload
SpecRecency == InitRecency /\ [][NextRecency]_vars

\* clientX/clientY of mouse moves in the position-store runs: far to the right
\* at the height of the press (clamped at the viewport edge), and a few pixels
\* away at a fractional coordinate.
StoreMovePoints == {<<90000, 30000>>, <<20500, 29533>>}

\* A mouse drag in progress: press, moves to the given points, and frames.
MouseDrag(points) ==
    \/ \E p \in DownPoints : onPointerDown("mousedown", p)
    \/ \E p \in points : onPointerMove("mousemove", p, TRUE)
    \/ AnimationFrame

\* A mouse gesture: a drag, the release and the long-press timer.
MouseStep(points) ==
    \/ MouseDrag(points)
    \/ onPointerUp("mouseup")
    \/ LongPressTimeout

\* The position store: mouse gestures (taps, drags, long-presses) and
\* settings-panel edits in a viewport that keeps its size.
InitStore == Loaded({b \in Blobs : b.keys \cap LegacyKeys = {}}, Viewports, {"A"})
NextStore ==
    \/ MouseStep({<<90000, 30000>>})
    \/ PanelStep
SpecStore == InitStore /\ [][NextStore]_vars

\* The button in a viewport that changes: mouse gestures, resizes and changes of
\* the button size, from a first load (no persisted blob).
InitViewport == Loaded({b \in Blobs : b.keys = {}}, Viewports, {"A"})
NextViewport ==
    \/ MouseStep(StoreMovePoints)
    \/ ResizeStep
    \/ \E value \in SizeChoices : ChangeFabSize(value)
SpecViewport == InitViewport /\ [][NextViewport]_vars

\* Persistence across runs: mouse gestures, teardown and a new load of the blob
\* last written.
InitReload == Loaded(Blobs, Viewports, {"A"})
NextReload ==
    \/ MouseStep(StoreMovePoints)
    \/ onunload
    \/ onload
SpecReload == InitReload /\ [][NextReload]_vars

\* Viewports of the clamp runs: those of Viewports and a window 40 px wide,
\* narrower than the button.
ViewportsWithNarrow == Viewports \cup {<<4000, 80000>>}

\* clientX/clientY of mouse moves that put the clamp's input below 0, inside
\* the viewport, and beyond its far edge.
ClampMovePoints == {<<-70000, 30000>>, <<20500, 29533>>, <<90000, 30000>>}

\* The clamp expression at work: a press that is held and moved, while the
\* viewport and the button size change (applyPosition), from a first load.
InitClamp == Loaded({b \in Blobs : b.keys = {}}, ViewportsWithNarrow, {"A"})
NextClamp ==
    \/ MouseDrag(ClampMovePoints)
    \/ \E v \in ViewportsWithNarrow : handleResize(v)
    \/ \E value \in SizeChoices : ChangeFabSize(value)
SpecClamp == InitClamp /\ [][NextClamp]_vars

\* Teardown: mouse and touch gestures with drags, the timers and frames they
\* leave behind, the initial record scheduled by onload, and onunload at any
\* point.
TeardownMovePoints == {<<90000, 30000>>}
InitTeardown == Loaded({b \in Blobs : b.keys = {}}, Viewports, {"A"})
NextTeardown ==
    \/ PointerStep
    \/ \E kind \in {"mousemove", "touchmove"}, p \in TeardownMovePoints :
           onPointerMove(kind, p, TRUE)
    \/ AnimationFrame
    \/ \E visible \in BOOLEAN : InitialRecord(visible)
    \/ onunload
SpecTeardown == InitTeardown /\ [][NextTeardown]_vars

\* Loading: blobs holding any subset of the settings fields, each stored value
\* different from its default; the plugin is unloaded and loaded again, and
\* the panel's sliders rewrite the blob in between.
StoredValues ==
    [posPortraitLeft      |-> [top |-> 4000, left |-> 2000],
     posPortraitRight     |-> [top |-> 4000, left |-> 6000],
     activeIndexPortrait  |-> 0,
     posLandscapeLeft     |-> [top |-> 3000, left |-> 1500],
     posLandscapeRight    |-> [top |-> 3000, left |-> 7000],
     activeIndexLandscape |-> 0,
     fabSize              |-> 6000,
     fabOpacity           |-> 80]
PartialBlobs ==
    {[keys |-> K, vals |-> StoredValues, legacy |-> LegacyValues] : K \in SUBSET NewKeys}
InitLoad == Loaded(PartialBlobs, Viewports, {"A"})
NextLoad ==
    \/ onunload
    \/ onload
    \/ \E value \in SizeChoices : ChangeFabSize(value)
    \/ \E value \in OpacityChoices : ChangeFabOpacity(value)
SpecLoad == InitLoad /\ [][NextLoad]_vars

\* Degenerate geometry: the window loses its whole width or height at any
\* point of a mouse gesture (the resize handler runs as for any resize).
ZeroExtentViewports == {<<0, 80000>>, <<40000, 0>>}
InitDegenerate == Loaded({b \in Blobs : b.keys = {}}, Viewports, {"A"})
NextDegenerate ==
    \/ MouseStep(StoreMovePoints)
    \/ \E v \in Viewports \cup ZeroExtentViewports : handleResize(v)
SpecDegenerate == InitDegenerate /\ [][NextDegenerate]_vars

\* Frames: mouse drags in which one more move than elsewhere may arrive between
\* two animation frames.
InitFrames == Loaded({b \in Blobs : b.keys = {}}, Viewports, {"A"})
NextFrames ==
    \/ \E p \in DownPoints : onPointerDown("mousedown", p)
    \/ \E p \in MovePoints : onPointerMoveWithin("mousemove", p, TRUE, MaxRaf + 1)
    \/ AnimationFrame
    \/ onPointerUp("mouseup")
    \/ LongPressTimeout
SpecFrames == InitFrames /\ [][NextFrames]_vars

\* Armed sessions under a fair timer: presses by mouse and touch, moves at the
\* threshold and just beyond it, animation frames; a timeout that is armed and
\* not cancelled does expire.
ArmedMovePoints == {<<20500, 29500>>, <<20000, 29400>>}
InitArmed == Loaded({b \in Blobs : b.keys = {}}, Viewports, {"A"})
NextArmed ==
    \/ PointerStep
    \/ \E kind \in {"mousemove", "touchmove"}, p \in ArmedMovePoints :
           onPointerMove(kind, p, TRUE)
    \/ AnimationFrame
SpecArmed == InitArmed /\ [][NextArmed]_vars /\ WF_vars(LongPressTimeout)

\* ------------------------------------------------------------------ claims

DownEvents == {"mousedown", "touchstart"}
MoveEvents == {"mousemove", "touchmove"}
UpEvents == {"mouseup", "touchend", "touchcancel"}

\* A session was opened and onPointerUp has closed it.
SessionCompleted == nextTimerId > 1 /\ ~pointerDownHandled

\* C1: a completed session ends in exactly one of drag-save, tap action and no
\* action: onPointerUp never calls both saveDraggedPosition and
\* jumpToRecentTab, calls neither more than once, calls saveDraggedPosition
\* exactly when the session entered Dragging, and neither is called while the
\* session is still open.
C1_ExactlyOneOutcome ==
    /\ pointerDownHandled =>
           calls.saveDraggedPosition = 0 /\ calls.jumpToRecentTab = 0
    /\ SessionCompleted =>
           /\ calls.saveDraggedPosition + calls.jumpToRecentTab <= 1
           /\ calls.saveDraggedPosition = (IF dragged THEN 1 ELSE 0)

\* A drag, finalized by a touchend, after moves and animation frames.
C1_Witness ==
    /\ SessionCompleted
    /\ lastEvent.type = "touchend"
    /\ calls.saveDraggedPosition = 1
    /\ calls.jumpToRecentTab = 0

\* C2: in a session without a drag exactly one of handleLongPress and
\* jumpToRecentTab runs: while the session is open no tap has run and the timer
\* is pending exactly if handleLongPress has not run; once it is completed
\* exactly one of the two has run, and no timer is left armed that could run
\* handleLongPress afterwards.
C2_TimerOrTap ==
    /\ (pointerDownHandled /\ ~dragged) =>
           /\ calls.jumpToRecentTab = 0
           /\ calls.handleLongPress <= 1
           /\ (calls.handleLongPress = 0) <=> (longPressTimer \in pendingTimers)
    /\ (SessionCompleted /\ ~dragged) =>
           calls.handleLongPress + calls.jumpToRecentTab = 1
    /\ SessionCompleted => (pendingTimers = {} /\ longPressTimer = 0)

\* The timer fired first: the pointer-up that followed took no tap action.
C2_Witness ==
    /\ SessionCompleted
    /\ ~dragged
    /\ lastEvent.type \in UpEvents
    /\ calls.handleLongPress = 1
    /\ calls.jumpToRecentTab = 0

\* C3: while a session is open a further onPointerDown, mouse or touch, changes
\* neither the start coordinates, the captured button position, the drag flag
\* nor the long-press timer, and arms no timer.
C3_SecondDownIgnored ==
    [][(pointerDownHandled /\ lastEvent'.type \in DownEvents) =>
           UNCHANGED <<dragStartX, dragStartY, fabInitialX, fabInitialY, isDragging,
                       longPressTimer, pendingTimers, nextTimerId, pointerDownHandled,
                       listeners>>]_vars

\* A touchstart arrived during a session opened by the mouse and was ignored.
C3_Witness ==
    /\ lastEvent.type = "touchstart"
    /\ ~lastEvent.flag
    /\ pointerDownHandled
    /\ "mouseup" \in listeners
    /\ longPressTimer \in pendingTimers

\* C4: as long as every move of the open session was at most 5 px from the
\* start point in both axes, the drag flag is not set and the long-press timer
\* was not cancelled: it is still pending unless it has fired.
C4_SmallMovesStayArmed ==
    (pointerDownHandled /\ ~exceeded) =>
        /\ ~isDragging
        /\ ~dragged
        /\ \/ longPressTimer \in pendingTimers
           \/ longPressTimer = 0 /\ calls.handleLongPress = 1

\* A touch move exactly 5 px away in both axes left the timer pending.
C4_Witness ==
    /\ pointerDownHandled
    /\ ~exceeded
    /\ lastEvent.type = "touchmove"
    /\ lastEvent.flag
    /\ Abs(lastEvent.x - dragStartX) = 500
    /\ Abs(lastEvent.y - dragStartY) = 500
    /\ longPressTimer \in pendingTimers

\* C5: once handleLongPress has run in a session, that session does not enter
\* Dragging and its onPointerUp does not call saveDraggedPosition.
C5_LongPressExcludesDrag ==
    calls.handleLongPress > 0 =>
        (~isDragging /\ ~dragged /\ calls.saveDraggedPosition = 0)

\* ------------------------------------------------------------------ recency

RecordEvents == {"active-leaf-change", "initial-record"}

FirstTwo(s) == IF Len(s) > 2 THEN SubSeq(s, 1, 2) ELSE s

Without(s, x) == SelectSeq(s, LAMBDA y : y # x)

\* The step is a call of updateRecentLeaves for a markdown leaf whose view is
\* displayed.
RecordsVisible(leaf) ==
    /\ lastEvent'.type \in RecordEvents
    /\ lastEvent'.leaf = leaf
    /\ leaf \in MarkdownLeaves
    /\ lastEvent'.flag

\* The step is a tap: onPointerUp called jumpToRecentTab.
TapStep ==
    /\ lastEvent'.type \in UpEvents
    /\ Len(jumpLog') = Len(jumpLog) + 1

\* C6: after any sequence of updateRecentLeaves calls, for markdown and other
\* leaves, displayed or hidden, recentLeaves has at most 2 entries, holds no
\* leaf twice, and when non-empty its entry 0 is the markdown leaf most recently
\* recorded while displayed.
C6_RecencyListInvariant ==
    /\ Len(recentLeaves) <= 2
    /\ \A i, j \in 1..Len(recentLeaves) : i # j => recentLeaves[i] # recentLeaves[j]
    /\ \A i \in 1..Len(recentLeaves) : recentLeaves[i] \in MarkdownLeaves
    /\ recentLeaves # << >> => recentLeaves[1] = recorded

\* A full list just after updateRecentLeaves was called for a hidden markdown
\* leaf that is not in it.
C6_Witness ==
    /\ lastEvent.type = "active-leaf-change"
    /\ lastEvent.leaf = "C"
    /\ ~lastEvent.flag
    /\ recentLeaves = <<"B", "A">>
    /\ recorded = "B"

\* C7: updateRecentLeaves for a displayed markdown leaf that is not at position
\* 0 yields that leaf followed by the previous list without it, cut to 2
\* entries; so recording A, B, A yields [A, B] and recording A, B, C yields
\* [C, B].
C7_RecordMovesToFront ==
    [][/\ \A leaf \in MarkdownLeaves :
              (RecordsVisible(leaf) /\ FindIndex(recentLeaves, leaf) # 0)
                  => recentLeaves' = FirstTwo(<<leaf>> \o Without(recentLeaves, leaf))
       /\ (RecordsVisible("A") /\ recentLeaves = << >>) => recentLeaves' = <<"A">>
       /\ (RecordsVisible("B") /\ recentLeaves = <<"A">>) => recentLeaves' = <<"B", "A">>
       /\ (RecordsVisible("A") /\ recentLeaves = <<"B", "A">>)
              => recentLeaves' = <<"A", "B">>
       /\ (RecordsVisible("C") /\ recentLeaves = <<"B", "A">>)
              => recentLeaves' = <<"C", "B">>
      ]_vars

\* A, B, C were recorded in this order.
C7_Witness ==
    /\ lastEvent.type = "active-leaf-change"
    /\ lastEvent.leaf = "C"
    /\ lastEvent.flag
    /\ recorded = "C"
    /\ recentLeaves = <<"C", "B">>

\* C8: the target chosen by jumpToRecentTab is none with fewer than 2 tracked
\* leaves; otherwise entry 1 when there is no active markdown leaf or it is
\* entry 0, and entry 0 for any other active markdown leaf, tracked or not.
C8_SwitchTarget ==
    [][TapStep =>
          LET active == ActiveMarkdownLeaf(activeLeaf)
              target == jumpLog'[Len(jumpLog')]
          IN  /\ Len(recentLeaves) < 2 => target = NoLeaf
              /\ Len(recentLeaves) >= 2 =>
                     /\ (active = NoLeaf \/ active = recentLeaves[1])
                            => target = recentLeaves[2]
                     /\ (active # NoLeaf /\ active # recentLeaves[1])
                            => target = recentLeaves[1]
              /\ \A a, b \in MarkdownLeaves :
                     recentLeaves = <<a, b>> =>
                         /\ activeLeaf = a => target = b
                         /\ activeLeaf \notin MarkdownLeaves => target = b
                         /\ activeLeaf \in MarkdownLeaves \ {a, b} => target = a
      ]_vars

\* A tap with [B, A] tracked and the untracked markdown leaf C active chose B.
C8_Witness ==
    /\ lastEvent.type \in UpEvents
    /\ recentLeaves = <<"B", "A">>
    /\ activeLeaf = "B"
    /\ leafEvents = <<"C", "B">>
    /\ jumpLog = <<"B">>

\* C9: taps jump back and forth between the two tracked leaves: with
\* recentLeaves = [a, b] and a active, a tap asks the host to focus b; when the
\* host delivers the resulting active-leaf-change for b (its view displayed)
\* the list becomes [b, a], so the next tap asks for a and the event for a
\* restores [a, b].
C9_TapsPingPong ==
    [][\A a, b \in MarkdownLeaves :
          /\ (TapStep /\ recentLeaves = <<a, b>> /\ activeLeaf = a
                  /\ b \notin closedLeaves)
                 => /\ jumpLog'[Len(jumpLog')] = b
                    /\ activeLeaf' = b
                    /\ leafEvents' = Append(leafEvents, b)
                    /\ recentLeaves' = recentLeaves
          /\ (RecordsVisible(b) /\ lastEvent'.type = "active-leaf-change"
                  /\ recentLeaves = <<a, b>>)
                 => /\ recentLeaves' = <<b, a>>
                    /\ leafEvents' = Tail(leafEvents)
                    /\ activeLeaf' = activeLeaf
      ]_vars

\* Two taps from [A, B] with A active, each followed by the host's event: B
\* was requested, then A, and the list and the active leaf are as at the start.
C9_Witness ==
    /\ jumpLog = <<"B", "A">>
    /\ lastEvent.type = "active-leaf-change"
    /\ lastEvent.leaf = "A"
    /\ lastEvent.flag
    /\ recentLeaves = <<"A", "B">>
    /\ activeLeaf = "A"
    /\ leafEvents = << >>

\* ---------------------------------------------------------------- placement

\* The step is a long-press timer callback that called handleLongPress.
LongPressStep ==
    /\ lastEvent'.type = "timeout"
    /\ calls'.handleLongPress = calls.handleLongPress + 1

Flipped(old, new) == (old = 0 /\ new = 1) \/ (old = 1 /\ new = 0)

\* C10: handleLongPress flips the active index of the orientation current when
\* it fires and leaves the other orientation's active index unchanged.
C10_LongPressTogglesCurrentOrientation ==
    [][LongPressStep =>
          IF innerWidth > innerHeight
          THEN /\ Flipped(settings.activeIndexLandscape, settings'.activeIndexLandscape)
               /\ settings'.activeIndexPortrait = settings.activeIndexPortrait
          ELSE /\ Flipped(settings.activeIndexPortrait, settings'.activeIndexPortrait)
               /\ settings'.activeIndexLandscape = settings.activeIndexLandscape
      ]_vars

\* A long press fired in landscape on the default settings: the landscape index
\* went from 1 to 0, the portrait index is still 1.
C10_Witness ==
    /\ lastEvent.type = "timeout"
    /\ lastEvent.flag
    /\ innerWidth > innerHeight
    /\ calls.handleLongPress = 1
    /\ settings.activeIndexLandscape = 0
    /\ settings.activeIndexPortrait = 1

\* -------------------------------------------------------------------- store

\* C11: a confirmed reset sets the four Positions to the hard-coded defaults
\* (85%/10%, 85%/90%, 80%/5%, 80%/95%) and both active indices to 1, leaves
\* fabSize and fabOpacity as they were, and then re-renders the button.
C11_ResetRestoresDefaults ==
    [][/\ lastEvent'.type = "reset" =>
              /\ \A slot \in PosSlots : settings'[slot] = DefaultSettingsLiteral[slot]
              /\ settings'.activeIndexPortrait = 1
              /\ settings'.activeIndexLandscape = 1
              /\ settings'.fabSize = settings.fabSize
              /\ settings'.fabOpacity = settings.fabOpacity
       /\ lastEvent'.type = "reset-done" =>
              fabElement' = applyFabStyles(
                                applyPosition(fabElement, settings, innerWidth,
                                              innerHeight), settings)
      ]_vars

\* The settings were just loaded from a blob holding only the legacy flat
\* fields (no save has replaced the blob since).
LoadedLegacyBlob ==
    /\ lastEvent.type \in {"load", "onload"}
    /\ persisted.keys = LegacyKeys

\* C12: loadSettings on a blob with only fabPositionLeft, fabPositionRight and
\* activePositionIndex ends with the six orientation-specific fields populated
\* and the three legacy fields absent from the settings object.
C12_LegacyBlobMigrated ==
    LoadedLegacyBlob =>
        /\ \A slot \in PosSlots : settings[slot].top \in Int /\ settings[slot].left \in Int
        /\ settings.activeIndexPortrait \in {0, 1}
        /\ settings.activeIndexLandscape \in {0, 1}
        /\ settingsLegacy = {}

\* -------------------------------------------------------------------- clamp

\* The step is an onPointerMove that computed clampedX, clampedY and queued them.
QueuesFrame == Len(rafQueue') = Len(rafQueue) + 1

\* The step ran applyPosition on the button.
Renders == lastEvent'.type \in {"resize", "size"} /\ fabElement'.present

WithinExtent(px, extent, size) == 0 <= px /\ px <= extent - size

WithinExtentOrZero(px, extent, size) ==
    /\ 0 <= px
    /\ size <= extent => px <= extent - size
    /\ size > extent => px = 0

\* C13 as stated: the clamp expression of applyPosition and onPointerMove
\* returns a value within [0, viewportExtent - size] for every input position,
\* viewport extent and button size.
C13_ClampWithinExtent ==
    [][/\ QueuesFrame =>
              LET cb == rafQueue'[Len(rafQueue')]
              IN  /\ WithinExtent(cb.x, innerWidth, settings.fabSize)
                  /\ WithinExtent(cb.y, innerHeight, settings.fabSize)
       /\ Renders =>
              /\ WithinExtent(fabElement'.left, innerWidth', settings'.fabSize)
              /\ WithinExtent(fabElement'.top, innerHeight', settings'.fabSize)
      ]_vars

\* C13, amended: the clamp expression returns a value within
\* [0, viewportExtent - size] for every input position whenever the button is
\* no larger than the viewport extent, and 0 when it is larger.
C13_ClampWithinExtentWhenFits ==
    [][/\ QueuesFrame =>
              LET cb == rafQueue'[Len(rafQueue')]
              IN  /\ WithinExtentOrZero(cb.x, innerWidth, settings.fabSize)
                  /\ WithinExtentOrZero(cb.y, innerHeight, settings.fabSize)
       /\ Renders =>
              /\ WithinExtentOrZero(fabElement'.left, innerWidth', settings'.fabSize)
              /\ WithinExtentOrZero(fabElement'.top, innerHeight', settings'.fabSize)
      ]_vars

\* A move far to the right was clamped to the far edge, innerWidth - fabSize.
C13_Witness ==
    /\ lastEvent.type = "mousemove"
    /\ lastEvent.x = 90000
    /\ rafQueue # << >>
    /\ settings.fabSize <= innerWidth
    /\ rafQueue[Len(rafQueue)].x = innerWidth - settings.fabSize
    /\ fabInitialX + (lastEvent.x - dragStartX) > innerWidth - settings.fabSize

\* ----------------------------------------------------------------- viewport

\* C14: whenever the button exists, its rendered top-left position satisfies
\* 0 <= left <= innerWidth - fabSize and 0 <= top <= innerHeight - fabSize,
\* after any sequence of renders, drag moves, animation frames, resizes, size
\* changes, long-presses and drag-saves.
C14_ButtonInsideViewport ==
    fabElement.present
        => /\ WithinExtent(fabElement.left, innerWidth, settings.fabSize)
           /\ WithinExtent(fabElement.top, innerHeight, settings.fabSize)

\* -------------------------------------------------------------- persistence

\* The step is an onPointerUp that finished a drag with saveDraggedPosition.
DragSaveStep ==
    /\ lastEvent'.type \in UpEvents
    /\ calls'.saveDraggedPosition = calls.saveDraggedPosition + 1

\* The button as a new run renders it from the blob: loadSettings, createFAB,
\* applyPosition in the given viewport.
Reloaded(blob, w, h) == applyPosition(NewFab, loadSettings(blob).vals, w, h)

OtherSidePx(s, w, h) ==
    LET other == s[OtherSlot(s, w, h)]
    IN  [left |-> Clamp(ToPixels(ParsePercent(other.left), w), w, s.fabSize),
         top  |-> Clamp(ToPixels(ParsePercent(other.top), h), h, s.fabSize)]

\* Two buttons of equal size at top-left positions p and q have their centers
\* less than r apart.
CentersCloserThan(p, q, r) ==
    /\ Abs(p.left - q.left) < r
    /\ Abs(p.top - q.top) < r
    /\ (p.left - q.left) * (p.left - q.left) + (p.top - q.top) * (p.top - q.top) < r * r

\* Their centers are r apart, to within half a pixel.
CentersApart(p, q, r) ==
    LET dx == Abs(p.left - q.left)
        dy == Abs(p.top - q.top)
    IN  /\ dx <= r + 50
        /\ dy <= r + 50
        /\ dx * dx + dy * dy >= (r - 50) * (r - 50)
        /\ dx * dx + dy * dy <= (r + 50) * (r + 50)

\* C16: whenever a drag (of a session without a long press) ends with the
\* center-distance between the button and the clamped inactive-side position
\* of the current orientation below fabSize * 1.2, the position that is saved
\* has center-distance fabSize * 1.2 to the inactive side and lies within the
\* viewport.
C16_CollisionPushedApart ==
    [][(DragSaveStep /\ fabElement.present /\ calls.handleLongPress = 0
            /\ CentersCloserThan(fabElement,
                                 OtherSidePx(settings, innerWidth, innerHeight),
                                 (settings.fabSize * 12) \div 10))
          => /\ CentersApart(fabElement',
                             OtherSidePx(settings, innerWidth, innerHeight),
                             (settings.fabSize * 12) \div 10)
             /\ WithinExtent(fabElement'.left, innerWidth, settings.fabSize)
             /\ WithinExtent(fabElement'.top, innerHeight, settings.fabSize)
             /\ settings'[ActiveSlot(settings, innerWidth, innerHeight)] =
                    [top  |-> ToPercentString(fabElement'.top, innerHeight),
                     left |-> ToPercentString(fabElement'.left, innerWidth)]
      ]_vars

\* ---------------------------------------------------------------- failed switch

SwitchErrorNotice == "Error switching tabs. The tab might have been closed."

\* The step is a tap whose target leaf has been closed: setActiveLeaf throws.
FailedTapStep ==
    /\ TapStep
    /\ Len(recentLeaves) >= 2
    /\ LET targetLeaf == SwitchTarget(recentLeaves, ActiveMarkdownLeaf(activeLeaf))
       IN  /\ targetLeaf # NoLeaf
           /\ targetLeaf # ActiveMarkdownLeaf(activeLeaf)
           /\ targetLeaf \in closedLeaves

\* C17: when the set-active call of a tap fails, the failure is caught inside
\* jumpToRecentTab, the notice "Error switching tabs. The tab might have been
\* closed." is shown, the active leaf stays, and the cleanup of onPointerUp
\* still completes: the document listeners are detached and isDragging and
\* pointerDownHandled are cleared, so the next pointer-down is accepted.
C17_FailedSwitchCaught ==
    [][/\ FailedTapStep
           => /\ notice' = SwitchErrorNotice
              /\ activeLeaf' = activeLeaf
              /\ leafEvents' = leafEvents
              /\ listeners' = {}
              /\ ~isDragging'
              /\ ~pointerDownHandled'
              /\ longPressTimer' = 0
              /\ ~DownIgnored(fabElement'.present, pointerDownHandled')
       /\ (notice = SwitchErrorNotice /\ lastEvent'.type \in DownEvents)
           => /\ lastEvent'.flag
              /\ pointerDownHandled'
              /\ listeners' # {}
      ]_vars

C17_Witness ==
    /\ notice = SwitchErrorNotice
    /\ lastEvent.type \in UpEvents
    /\ jumpLog # << >>
    /\ jumpLog[Len(jumpLog)] \in closedLeaves
    /\ listeners = {}
    /\ ~pointerDownHandled
    /\ ~isDragging

\* ---------------------------------------------------------------- resize in a session

\* C18: a viewport resize that arrives while a gesture session is open cancels
\* the pending long-press timer and detaches the document move/up listeners.
C18_ResizeEndsSession ==
    [][(lastEvent'.type = "resize" /\ pointerDownHandled)
           => /\ pendingTimers' = {}
              /\ longPressTimer' = 0
              /\ listeners' = {}
      ]_vars

\* ---------------------------------------------------------------- teardown

\* C19: onunload in any state, including mid-session, cancels the pending
\* long-press timer, detaches every document move/up listener, removes the
\* button and empties the recency list; once torn down, handleLongPress never
\* runs, no timer or listener comes back, and the settings and the stored
\* blob are never changed.
C19_TeardownReleasesAll ==
    [][/\ lastEvent'.type = "unload"
           => /\ pendingTimers' = {}
              /\ listeners' = {}
              /\ ~fabElement'.present
              /\ recentLeaves' = << >>
       /\ ~loaded
           => /\ settings' = settings
              /\ persisted' = persisted
              /\ calls'.handleLongPress = calls.handleLongPress
              /\ calls'.saveDraggedPosition = calls.saveDraggedPosition
              /\ pendingTimers' = {}
              /\ listeners' = {}
              /\ ~fabElement'.present
      ]_vars

\* Torn down in the middle of a session whose long-press timer was armed: the
\* session flag and the timer id are still set, the timer and the listeners
\* are gone.
C19_Witness ==
    /\ lastEvent.type = "unload"
    /\ ~loaded
    /\ pointerDownHandled
    /\ ~isDragging
    /\ longPressTimer # 0
    /\ pendingTimers = {}
    /\ listeners = {}
    /\ ~fabElement.present
    /\ recentLeaves = << >>

\* ---------------------------------------------------------------- save after mutation

\* C20: every handler that mutates the settings (saveDraggedPosition,
\* handleLongPress, the size slider, the opacity slider, reset) issues
\* saveSettings with the mutated values in the same handler: after any step
\* that changes the settings, or that ran one of these handlers, the stored
\* blob holds exactly the settings of that moment.
C20_MutationsAreSaved ==
    [][/\ settings' # settings
           => persisted' = Blob(settings', settingsLegacy')
       /\ (\/ calls'.saveDraggedPosition # calls.saveDraggedPosition
           \/ calls'.handleLongPress # calls.handleLongPress
           \/ lastEvent'.type \in {"size", "opacity", "reset"})
           => /\ persisted'.vals = settings'
              /\ persisted'.keys = NewKeys \cup settingsLegacy'
      ]_vars

\* A drag has been saved, a long press has toggled the side and the size slider
\* has been moved; the store holds the outcome of all three.
C20_Witness ==
    /\ calls.saveDraggedPosition >= 1
    /\ calls.handleLongPress >= 1
    /\ settings.fabSize # DefaultFabSize
    /\ settings # DefaultSettingsLiteral
    /\ persisted = Blob(settings, settingsLegacy)

\* ---------------------------------------------------------------- loading

\* The state loadSettings has just produced.
JustLoaded == lastEvent.type \in {"load", "onload"}

\* C21: loadSettings with a missing blob or a blob holding any subset of the
\* settings fields yields settings in which every field absent from the blob
\* has its DEFAULT_SETTINGS value and every field present in the blob keeps
\* its stored value.
C21_LoadDefaultsMissingFields ==
    JustLoaded =>
        \A k \in NewKeys :
            /\ k \in persisted.keys => settings[k] = persisted.vals[k]
            /\ k \notin persisted.keys => settings[k] = DefaultSettingsLiteral[k]
            /\ (k \notin persisted.keys /\ k \in PosSlots)
                   => settings[k] = DEFAULT_SETTINGS[k]

\* Loaded again from a blob holding two of the eight fields.
C21_Witness ==
    /\ lastEvent.type = "onload"
    /\ persisted.keys = {"posPortraitLeft", "fabSize"}
    /\ settings.posPortraitLeft = StoredValues.posPortraitLeft
    /\ settings.fabSize = StoredValues.fabSize
    /\ settings.posPortraitRight = DefaultSettingsLiteral.posPortraitRight
    /\ settings.fabOpacity = DefaultFabOpacity

\* ---------------------------------------------------------------- zero extent

\* C22: with a zero viewport extent, applyPosition renders the affected
\* coordinate as 0 and saveDraggedPosition stores a finite percentage: no NaN
\* or Infinity is ever rendered or written into a saved Position.
C22_ZeroExtentStaysFinite ==
    /\ (fabElement.present /\ lastEvent.type = "resize" /\ innerHeight = 0)
           => fabElement.top = 0
    /\ (fabElement.present /\ lastEvent.type = "resize" /\ innerWidth = 0)
           => fabElement.left = 0
    /\ fabElement.present => IsFinite(fabElement.top) /\ IsFinite(fabElement.left)
    /\ \A k \in PosSlots : IsFinite(settings[k].top) /\ IsFinite(settings[k].left)
    /\ \A k \in PosSlots :
           IsFinite(persisted.vals[k].top) /\ IsFinite(persisted.vals[k].left)

\* ---------------------------------------------------------------- percent range

PercentInRange(p) == 0 <= p /\ p <= 10000

\* C23: in every reachable state, from defaults or a well-formed blob, each of
\* the four saved Positions has top and left within [0, 100] percent, after
\* any sequence of drags, long-presses, resizes, size changes and resets.
C23_SavedPercentsInRange ==
    \A k \in PosSlots : PercentInRange(settings[k].top) /\ PercentInRange(settings[k].left)

\* ---------------------------------------------------------------- drag excludes long press

\* The step is a move of an open session, not yet dragging, whose pointer is
\* more than 5 px from the start point in x or in y, taken while the long-press
\* timer is pending.
BreachStep ==
    /\ lastEvent'.type \in MoveEvents
    /\ lastEvent'.flag
    /\ pointerDownHandled
    /\ ~isDragging
    /\ longPressTimer \in pendingTimers
    /\ \/ Abs(lastEvent'.x - dragStartX) > dragThreshold
       \/ Abs(lastEvent'.y - dragStartY) > dragThreshold

\* C24: once a move exceeds the 5 px threshold in either axis while the timer
\* is pending, the timer is cancelled and the session is Dragging; from then
\* until onPointerUp, handleLongPress never runs in that session and no active
\* index is toggled.
C24_DragCancelsLongPress ==
    [][/\ BreachStep
           => /\ isDragging'
              /\ pointerDownHandled'
              /\ longPressTimer' = 0
              /\ pendingTimers' = {}
              /\ fabElement.present => fabElement'.dragging
       /\ (isDragging /\ pointerDownHandled /\ calls.handleLongPress = 0)
           => /\ calls'.handleLongPress = 0
              /\ settings'.activeIndexPortrait = settings.activeIndexPortrait
              /\ settings'.activeIndexLandscape = settings.activeIndexLandscape
              /\ lastEvent'.type \notin UpEvents => isDragging' /\ pendingTimers' = {}
      ]_vars

\* Dragging after a move of 6 px in y alone.
C24_Witness ==
    /\ isDragging
    /\ pointerDownHandled
    /\ lastEvent.type \in MoveEvents
    /\ lastEvent.x = dragStartX
    /\ Abs(lastEvent.y - dragStartY) = 600
    /\ longPressTimer = 0
    /\ pendingTimers = {}
    /\ calls.handleLongPress = 0

\* ---------------------------------------------------------------- slot written by a drag

\* The active side of the current orientation, spelled out.
SlotOfActiveSide(s, w, h) ==
    IF w > h
    THEN (IF s.activeIndexLandscape = 0 THEN "posLandscapeLeft" ELSE "posLandscapeRight")
    ELSE (IF s.activeIndexPortrait = 0 THEN "posPortraitLeft" ELSE "posPortraitRight")

\* applyPosition renders from slot k alone: with the origin stored in k it
\* renders the origin.
AppliesFrom(k, s, w, h) ==
    LET fab == applyPosition(NewFab, [s EXCEPT ![k] = [top |-> 0, left |-> 0]], w, h)
    IN  fab.top = 0 /\ fab.left = 0

\* C25: saveDraggedPosition overwrites exactly the Position slot applyPosition
\* would read at that moment, the active side of the current orientation, with
\* the percentages of the final pixel position, and leaves the other three
\* slots, both active indices, fabSize and fabOpacity unchanged.
C25_DragSaveWritesActiveSlot ==
    [][(DragSaveStep /\ fabElement.present)
           => LET slot == SlotOfActiveSide(settings, innerWidth, innerHeight)
              IN  /\ AppliesFrom(slot, settings, innerWidth, innerHeight)
                  /\ settings'[slot] =
                         [top  |-> ToPercentString(fabElement'.top, innerHeight),
                          left |-> ToPercentString(fabElement'.left, innerWidth)]
                  /\ \A k \in PosSlots \ {slot} : settings'[k] = settings[k]
                  /\ settings'.activeIndexPortrait = settings.activeIndexPortrait
                  /\ settings'.activeIndexLandscape = settings.activeIndexLandscape
                  /\ settings'.fabSize = settings.fabSize
                  /\ settings'.fabOpacity = settings.fabOpacity
                  /\ \A k \in PosSlots \ {slot} : persisted'.vals[k] = settings[k]
      ]_vars

\* A drag in landscape with the left side active has been saved: that slot
\* alone differs from the defaults.
C25_Witness ==
    /\ lastEvent.type \in UpEvents
    /\ calls.saveDraggedPosition = 1
    /\ innerWidth > innerHeight
    /\ settings.activeIndexLandscape = 0
    /\ settings.posLandscapeLeft # DefaultSettingsLiteral.posLandscapeLeft
    /\ settings.posLandscapeRight = DefaultSettingsLiteral.posLandscapeRight
    /\ settings.posPortraitLeft = DefaultSettingsLiteral.posPortraitLeft
    /\ settings.posPortraitRight = DefaultSettingsLiteral.posPortraitRight

\* ---------------------------------------------------------------- records without effect

\* C26: updateRecentLeaves leaves the recency list unchanged when the view is
\* not a markdown view, when its rendered width or height is zero, or when the
\* leaf is already at position 0.
C26_RecordNoOps ==
    [][lastEvent'.type \in RecordEvents
           => /\ lastEvent'.leaf \notin MarkdownLeaves => recentLeaves' = recentLeaves
              /\ ~lastEvent'.flag => recentLeaves' = recentLeaves
              /\ (recentLeaves # << >> /\ recentLeaves[1] = lastEvent'.leaf)
                     => recentLeaves' = recentLeaves
      ]_vars

\* The active-leaf-change for markdown leaf B arrived while B's view had no
\* size: the list still holds A alone.
C26_Witness ==
    /\ lastEvent.type = "active-leaf-change"
    /\ lastEvent.leaf = "B"
    /\ ~lastEvent.flag
    /\ activeLeaf = "B"
    /\ "B" \notin closedLeaves
    /\ recentLeaves = <<"A">>

\* ---------------------------------------------------------------- tap with nothing to switch to

NoPreviousNotice == "No previous tab available to switch to."

\* C27: a tap while fewer than 2 views are tracked makes no focus request to
\* the host, leaves the recency list unchanged and shows a notice; the session
\* still ends in Idle.
C27_TapWithoutPrevious ==
    [][(TapStep /\ Len(recentLeaves) < 2)
           => /\ jumpLog'[Len(jumpLog')] = NoLeaf
              /\ activeLeaf' = activeLeaf
              /\ leafEvents' = leafEvents
              /\ recentLeaves' = recentLeaves
              /\ notice' = NoPreviousNotice
              /\ ~pointerDownHandled'
              /\ ~isDragging'
              /\ longPressTimer' = 0
              /\ pendingTimers' = {}
              /\ listeners' = {}
      ]_vars

\* A tap with one tracked leaf has ended.
C27_Witness ==
    /\ lastEvent.type \in UpEvents
    /\ calls.jumpToRecentTab = 1
    /\ notice = NoPreviousNotice
    /\ recentLeaves = <<"A">>
    /\ leafEvents = << >>
    /\ ~pointerDownHandled
    /\ listeners = {}

\* ---------------------------------------------------------------- move without touches

\* C28: a touch move event carrying zero active touches during an open session
\* is a no-op: it does not set the drag flag, does not cancel the long-press
\* timer and does not schedule a position update.
C28_EmptyTouchMoveIgnored ==
    [][(lastEvent'.type = "touchmove" /\ ~lastEvent'.flag /\ pointerDownHandled)
           => /\ isDragging' = isDragging
              /\ longPressTimer' = longPressTimer
              /\ pendingTimers' = pendingTimers
              /\ rafQueue' = rafQueue
              /\ fabElement' = fabElement
              /\ pointerDownHandled'
              /\ listeners' = listeners
              /\ settings' = settings
              /\ dragged' = dragged
      ]_vars

\* A touch session still armed after a touchmove without touches, reported far
\* beyond the threshold.
C28_Witness ==
    /\ lastEvent.type = "touchmove"
    /\ ~lastEvent.flag
    /\ Abs(lastEvent.x - dragStartX) > dragThreshold
    /\ pointerDownHandled
    /\ ~isDragging
    /\ longPressTimer \in pendingTimers
    /\ rafQueue = << >>
    /\ ~fabElement.dragging

\* ---------------------------------------------------------------- drag updates

\* The step is a move handled while, or by which, the session is Dragging.
DragMoveStep ==
    /\ lastEvent'.type \in MoveEvents
    /\ lastEvent'.flag
    /\ pointerDownHandled
    /\ isDragging'
    /\ fabElement.present

\* C29: while Dragging, each move schedules, per axis, the clamp of the button
\* position captured at pointer-down plus (current pointer - start pointer);
\* scheduled updates are applied in arrival order, so after an animation frame
\* the rendered position is that of the last move received before the frame.
C29_DragFollowsLastMove ==
    [][/\ DragMoveStep
           => LET newX == fabInitialX + (lastEvent'.x - dragStartX)
                  newY == fabInitialY + (lastEvent'.y - dragStartY)
              IN  rafQueue' = Append(rafQueue,
                      [x |-> Max(0, Min(newX, innerWidth - settings.fabSize)),
                       y |-> Max(0, Min(newY, innerHeight - settings.fabSize)),
                       session |-> CurrentSession(nextTimerId)])
       /\ (lastEvent'.type = "frame" /\ isDragging /\ fabElement.present)
           => /\ fabElement'.left = rafQueue[Len(rafQueue)].x
              /\ fabElement'.top = rafQueue[Len(rafQueue)].y
              /\ rafQueue' = << >>
              /\ lastEvent'.x = Len(rafQueue)
      ]_vars

\* A frame ran two updates: the first move went far to the right, the last one
\* 6 px up from the start point, and the button is 6 px above where it was at
\* pointer-down.
C29_Witness ==
    /\ lastEvent.type = "frame"
    /\ lastEvent.x = 2
    /\ isDragging
    /\ pointerDownHandled
    /\ fabElement.left = fabInitialX
    /\ fabElement.top = fabInitialY - 600

\* ---------------------------------------------------------------- long press

\* C30: when the long-press timer fires in a session that has not entered
\* Dragging, handleLongPress toggles the current orientation's active index,
\* the button is at once re-rendered at the clamped pixel position of the
\* newly active side of the current orientation, the timer is marked consumed
\* (null), and the session stays open until onPointerUp.
C30_LongPressRerendersOtherSide ==
    [][/\ LongPressStep
           => LET before == SlotOfActiveSide(settings, innerWidth, innerHeight)
                  after == SlotOfActiveSide(settings', innerWidth, innerHeight)
                  pos == settings'[after]
              IN  /\ ~isDragging
                  /\ pointerDownHandled
                  /\ after # before
                  /\ \A k \in PosSlots : settings'[k] = settings[k]
                  /\ fabElement'.present
                  /\ fabElement'.top =
                         Max(0, Min(ToPixels(pos.top, innerHeight),
                                    innerHeight - settings.fabSize))
                  /\ fabElement'.left =
                         Max(0, Min(ToPixels(pos.left, innerWidth),
                                    innerWidth - settings.fabSize))
                  /\ longPressTimer' = 0
                  /\ pendingTimers' = {}
                  /\ pointerDownHandled'
                  /\ ~isDragging'
                  /\ listeners' = listeners
                  /\ notice' = "Switched button position!"
       /\ (pointerDownHandled /\ lastEvent'.type \notin UpEvents)
           => pointerDownHandled' /\ listeners' # {}
      ]_vars

\* The long press fired in portrait on the default settings: the left side
\* (85%, 10%) is active and rendered at 680 px, 40 px; the session is open.
C30_Witness ==
    /\ lastEvent.type = "timeout"
    /\ lastEvent.flag
    /\ calls.handleLongPress = 1
    /\ innerWidth = 40000
    /\ innerHeight = 80000
    /\ settings.activeIndexPortrait = 0
    /\ settings.posPortraitLeft = DefaultSettingsLiteral.posPortraitLeft
    /\ fabElement.top = 68000
    /\ fabElement.left = 4000
    /\ longPressTimer = 0
    /\ pointerDownHandled
    /\ listeners # {}

\* ---------------------------------------------------------------- liveness

\* The session is open, not dragging, and its long-press timer is pending.
Armed == pointerDownHandled /\ ~isDragging /\ longPressTimer \in pendingTimers

\* C31: under fairness of the timer, a session that stays Armed (no move
\* beyond 5 px and no onPointerUp) eventually fires handleLongPress; and every
\* open session whose onPointerUp is delivered returns to Idle with the timer
\* cleared, the listeners detached and the session flag cleared.
C31_ArmedFiresAndUpEnds ==
    /\ Armed ~> (calls.handleLongPress >= 1 \/ isDragging \/ ~pointerDownHandled)
    /\ [][(lastEvent'.type \in UpEvents /\ pointerDownHandled)
              => /\ ~pointerDownHandled'
                 /\ ~isDragging'
                 /\ longPressTimer' = 0
                 /\ pendingTimers' = {}
                 /\ listeners' = {}
         ]_vars

\* The timer fired in a session whose pointer moved, but never beyond the
\* threshold; the session is still open.
C31_Witness ==
    /\ lastEvent.type = "timeout"
    /\ lastEvent.flag
    /\ calls.handleLongPress = 1
    /\ ~exceeded
    /\ dragStartX # 0
    /\ ~isDragging
    /\ pointerDownHandled
    /\ pendingTimers = {}

\* ---------------------------------------------------------------- idle

\* C32: in every reachable state where no session is open (pointerDownHandled
\* is false) no long-press timer is pending, the drag flag is false and no
\* document move/up listener is attached; so no timer callback and no document
\* move/up handler runs while no session is open.
C32_IdleHoldsNothing ==
    /\ [](~pointerDownHandled
              => /\ pendingTimers = {}
                 /\ longPressTimer = 0
                 /\ ~isDragging
                 /\ listeners = {}
                 /\ fabElement.present => ~fabElement.dragging)
    /\ [][~pointerDownHandled
              => lastEvent'.type \notin MoveEvents \cup UpEvents \cup {"timeout"}]_vars

\* Idle again after a touch session that dragged.
C32_Witness ==
    /\ loaded
    /\ ~pointerDownHandled
    /\ lastEvent.type = "touchend"
    /\ dragged
    /\ calls.saveDraggedPosition = 1
    /\ pendingTimers = {}
    /\ listeners = {}
    /\ ~isDragging

\* ---------------------------------------------------------------- stale frame callbacks

\* C33: a position update scheduled by onPointerMove in one session is never
\* applied to the button after that session's onPointerUp, also when a later
\* session is already Dragging when the stale callback runs: every callback
\* whose body runs in a frame was requested by the session then open.
C33_NoStaleFrameUpdate ==
    [][lastEvent'.type = "frame"
           => LET applied == AppliedCallbacks(fabElement, rafQueue, isDragging)
              IN  \A i \in 1..Len(applied) :
                      /\ pointerDownHandled
                      /\ applied[i].session = CurrentSession(nextTimerId)
      ]_vars

\* ---------------------------------------------------------------- position saved by a drag

\* C34: at the onPointerUp of a drag, the position saveDraggedPosition stores
\* corresponds to the clamped target of the last move processed in that
\* session, for every interleaving of moves, animation frames and onPointerUp,
\* also when onPointerUp arrives before the frame of the last move has run.
\* The last move of the open session is the one whose callback was requested
\* last; with no collision adjustment its target is what is stored.
C34_SavesLastMoveTarget ==
    [][(DragSaveStep /\ fabElement.present /\ rafQueue # << >>
            /\ rafQueue[Len(rafQueue)].session = CurrentSession(nextTimerId)
            /\ ~AdjustedPosition(fabElement, settings, innerWidth, innerHeight).adjusted)
           => LET target == rafQueue[Len(rafQueue)]
                  slot == SlotOfActiveSide(settings, innerWidth, innerHeight)
              IN  settings'[slot] =
                      [top  |-> ToPercentString(target.y, innerHeight),
                       left |-> ToPercentString(target.x, innerWidth)]
      ]_vars

\* ---------------------------------------------------------------- the defaults object

\* C35: no operation modifies the hard-coded defaults: after loadSettings on a
\* missing or partial blob and any sequence of drag-saves, long-presses and
\* setting edits, DEFAULT_SETTINGS still holds portrait-left 85%/10%,
\* portrait-right 85%/90%, landscape-left 80%/5%, landscape-right 80%/95%.
C35_DefaultsUntouched ==
    /\ DEFAULT_SETTINGS.posPortraitLeft = [top |-> 8500, left |-> 1000]
    /\ DEFAULT_SETTINGS.posPortraitRight = [top |-> 8500, left |-> 9000]
    /\ DEFAULT_SETTINGS.posLandscapeLeft = [top |-> 8000, left |-> 500]
    /\ DEFAULT_SETTINGS.posLandscapeRight = [top |-> 8000, left |-> 9500]

\* ---------------------------------------------------------------- tap with two tracked views

AlreadyThereNotice == "Already on the most recent tab."
NoTargetNotice == "Could not determine target tab."

\* C36: whenever 2 views are tracked, the target jumpToRecentTab computes is
\* non-null and different from the active view, whether there is no active
\* markdown view or it is entry 0, entry 1 or untracked; the notices "Already on
\* the most recent tab." and "Could not determine target tab." are never shown,
\* and every such tap issues a focus request (which moves the focus to the
\* target, or fails and is reported when the target was closed).
C36_TwoTrackedAlwaysSwitches ==
    /\ [](notice # AlreadyThereNotice /\ notice # NoTargetNotice)
    /\ [][(TapStep /\ Len(recentLeaves) = 2)
              => LET active == ActiveMarkdownLeaf(activeLeaf)
                     target == jumpLog'[Len(jumpLog')]
                 IN  /\ target # NoLeaf
                     /\ target \in MarkdownLeaves
                     /\ target # active
                     /\ target # activeLeaf
                     /\ IF target \in closedLeaves
                        THEN notice' = SwitchErrorNotice
                        ELSE /\ notice' = ""
                             /\ activeLeaf' = target
                             /\ leafEvents' = Append(leafEvents, target)
      ]_vars

\* A tap with [A, B] tracked while entry 1, or an untracked markdown view, was
\* active has moved the focus to entry 0.
C36_Witness ==
    /\ lastEvent.type \in UpEvents
    /\ recentLeaves = <<"A", "B">>
    /\ jumpLog = <<"A">>
    /\ activeLeaf = "A"
    /\ leafEvents # << >>
    /\ leafEvents[Len(leafEvents)] = "A"
    /\ notice = ""

\* ---------------------------------------------------------------- active indices

\* The orientation a Position slot belongs to.
SlotOrientation(k) ==
    IF k \in {"posLandscapeLeft", "posLandscapeRight"} THEN "landscape" ELSE "portrait"

\* C37: starting from the defaults or a blob whose active indices are 0 or 1,
\* activeIndexPortrait and activeIndexLandscape are 0 or 1 in every reachable
\* state, and in saveDraggedPosition the slot that is written (active side)
\* and the slot of the collision test (other side) are two different slots of
\* the same orientation, the current one; no other slot is written.
C37_IndicesBinarySlotsDistinct ==
    /\ [](/\ settings.activeIndexPortrait \in {0, 1}
          /\ settings.activeIndexLandscape \in {0, 1})
    /\ [][DragSaveStep
              => LET positionToUpdate == ActiveSlot(settings, innerWidth, innerHeight)
                     otherPosition == OtherSlot(settings, innerWidth, innerHeight)
                 IN  /\ positionToUpdate # otherPosition
                     /\ SlotOrientation(positionToUpdate) = SlotOrientation(otherPosition)
                     /\ SlotOrientation(positionToUpdate) =
                            (IF innerWidth > innerHeight THEN "landscape" ELSE "portrait")
                     /\ \A k \in PosSlots \ {positionToUpdate} : settings'[k] = settings[k]
                     /\ settings'.activeIndexPortrait = settings.activeIndexPortrait
                     /\ settings'.activeIndexLandscape = settings.activeIndexLandscape
      ]_vars

\* In a landscape viewport a long-press flipped the saved index 1 to 0, and a
\* later drag was saved to the left slot.
C37_Witness ==
    /\ lastEvent.type \in UpEvents
    /\ innerWidth > innerHeight
    /\ calls.handleLongPress = 1
    /\ calls.saveDraggedPosition = 1
    /\ settings.activeIndexLandscape = 0
    /\ settings.activeIndexPortrait = 0
    /\ settings.posLandscapeLeft # SavedValues.posLandscapeLeft
    /\ settings.posLandscapeRight = SavedValues.posLandscapeRight

\* ---------------------------------------------------------------- touchcancel

\* clientX/clientY of touch moves in the touch-session runs: far to the right.
CancelMovePoints == {<<90000, 30000>>}

\* Touch sessions and how they end: touches on the button that are held, moved
\* or released by touchend or touchcancel, while the host moves the focus
\* between two markdown views.
InitCancel == Loaded({b \in Blobs : b.keys = {}}, {<<40000, 80000>>}, {"A"})
NextCancel ==
    \/ \E p \in DownPoints : onPointerDown("touchstart", p)
    \/ \E p \in CancelMovePoints : onPointerMove("touchmove", p, TRUE)
    \/ AnimationFrame
    \/ \E kind \in {"touchend", "touchcancel"} : onPointerUp(kind)
    \/ LongPressTimeout
    \/ \E l \in {"A", "B"} : HostActivates(l)
    \/ \E visible \in BOOLEAN : ActiveLeafChange(visible)
    \/ \E visible \in BOOLEAN : InitialRecord(visible)
SpecCancel == InitCancel /\ [][NextCancel]_vars

\* The step is an onPointerUp for an event of the given kind that found a
\* session open.
EndsSessionBy(kind) ==
    /\ lastEvent'.type = kind
    /\ pointerDownHandled

\* C38: a touchcancel is handled exactly like a touchend: a touch session
\* listens for both, and either one ends the open session through onPointerUp;
\* arriving while the timer is pending and no drag occurred it triggers the tap
\* action (with 2 tracked views, the focus switch), arriving during a drag it
\* triggers the drag-save, and after a long-press it triggers neither.
C38_TouchCancelLikeTouchEnd ==
    /\ []((pointerDownHandled /\ "touchend" \in listeners) => "touchcancel" \in listeners)
    /\ [][\A kind \in {"touchend", "touchcancel"} :
              EndsSessionBy(kind) =>
                  /\ ~pointerDownHandled'
                  /\ ~isDragging'
                  /\ longPressTimer' = 0
                  /\ pendingTimers' = {}
                  /\ listeners' = {}
                  /\ (~isDragging /\ longPressTimer \in pendingTimers) =>
                         /\ calls'.jumpToRecentTab = calls.jumpToRecentTab + 1
                         /\ calls'.saveDraggedPosition = calls.saveDraggedPosition
                         /\ settings' = settings
                         /\ Len(recentLeaves) = 2 =>
                                /\ activeLeaf' = SwitchTarget(recentLeaves,
                                                     ActiveMarkdownLeaf(activeLeaf))
                                /\ activeLeaf' # activeLeaf
                                /\ leafEvents' = Append(leafEvents, activeLeaf')
                  /\ isDragging =>
                         /\ calls'.saveDraggedPosition = calls.saveDraggedPosition + 1
                         /\ calls'.jumpToRecentTab = calls.jumpToRecentTab
                         /\ activeLeaf' = activeLeaf
                         /\ leafEvents' = leafEvents
                         /\ \A k \in PosSlots \ {ActiveSlot(settings, innerWidth, innerHeight)} :
                                settings'[k] = settings[k]
                         /\ persisted'.keys = NewKeys
                         /\ persisted'.vals = settings'
                  /\ (~isDragging /\ longPressTimer = 0) =>
                         /\ calls' = calls
                         /\ settings' = settings
                         /\ activeLeaf' = activeLeaf
      ]_vars

\* A touchcancel ended a touch that was neither moved nor held for the long
\* press, with [B, A] tracked and B active: the focus went to A.
C38_Witness ==
    /\ lastEvent.type = "touchcancel"
    /\ lastEvent.flag
    /\ calls.jumpToRecentTab = 1
    /\ calls.saveDraggedPosition = 0
    /\ recentLeaves = <<"B", "A">>
    /\ jumpLog = <<"A">>
    /\ activeLeaf = "A"
    /\ leafEvents = <<"A">>
    /\ ~pointerDownHandled
    /\ listeners = {}

====
